---- MODULE Spec2Model ----
(***************************************************************************)
(* Model of the batch file renamer: FileRenamer (src/js/renamer.js) with   *)
(* the FileSystemManager it probes (src/js/sorter.js).                     *)
(*                                                                         *)
(* Strings are sequences of one-character strings, so that formatting,    *)
(* trimming, searching and replacing are computed as the code computes     *)
(* them.                                                                   *)
(***************************************************************************)
EXTENDS Integers, Sequences, FiniteSets

(***************************************************************************)
(* Bounds of the model.                                                    *)
(***************************************************************************)
\* longest file sequence handed to generatePreview
MaxFiles == 2
\* largest startIndex option tried
MaxStartIndex == 2

(***************************************************************************)
(* String primitives of the host language, as far as the code uses them.  *)
(***************************************************************************)
\* the placeholder token '{number}'
Placeholder == <<"{", "n", "u", "m", "b", "e", "r", "}">>

\* characters String.prototype.trim removes
Whitespace == {" ", "\t", "\n", "\r", "\f"}

\* the control characters \x00-\x1f that the strings of the model can hold
ControlChars == {"\t", "\n", "\r", "\f"}

DigitChars == <<"0", "1", "2", "3", "4", "5", "6", "7", "8", "9">>

LowerChars == <<"a", "b", "c", "d", "e", "f", "g", "h", "i", "j", "k", "l", "m",
                "n", "o", "p", "q", "r", "s", "t", "u", "v", "w", "x", "y", "z">>

UpperChars == <<"A", "B", "C", "D", "E", "F", "G", "H", "I", "J", "K", "L", "M",
                "N", "O", "P", "Q", "R", "S", "T", "U", "V", "W", "X", "Y", "Z">>

\* one character upper-cased (the /i flag of the reserved-name test)
ToUpperChar(c) ==
    IF \E i \in 1..26 : LowerChars[i] = c
    THEN UpperChars[CHOOSE i \in 1..26 : LowerChars[i] = c]
    ELSE c

ToUpperCase(s) == [i \in 1..Len(s) |-> ToUpperChar(s[i])]

\* String(index) for a non-negative integer
RECURSIVE StringOf(_)
StringOf(n) ==
    IF n < 10 THEN <<DigitChars[n + 1]>>
    ELSE StringOf(n \div 10) \o <<DigitChars[(n % 10) + 1]>>

\* a padding that cuts the string to the target length
padStart_truncating(s, targetLength, padChar) ==
    IF Len(s) >= targetLength THEN SubSeq(s, Len(s) - targetLength + 1, Len(s))
    ELSE [i \in 1..(targetLength - Len(s)) |-> padChar] \o s

\* s.padStart(targetLength, padChar)
padStart(s, targetLength, padChar) ==
    IF Len(s) >= targetLength THEN s
    ELSE [i \in 1..(targetLength - Len(s)) |-> padChar] \o s

\* s.trim()
RECURSIVE trimStart(_)
trimStart(s) ==
    IF s # <<>> /\ Head(s) \in Whitespace THEN trimStart(Tail(s)) ELSE s

RECURSIVE trimEnd(_)
trimEnd(s) ==
    IF s # <<>> /\ s[Len(s)] \in Whitespace
    THEN trimEnd(SubSeq(s, 1, Len(s) - 1)) ELSE s

trim(s) == trimEnd(trimStart(s))

\* does sub occur in s at position i (1-based)?
OccursAt(s, sub, i) ==
    /\ i >= 1
    /\ i + Len(sub) - 1 <= Len(s)
    /\ SubSeq(s, i, i + Len(sub) - 1) = sub

\* s.indexOf(sub), 1-based; 0 when absent
IndexOf(s, sub) ==
    IF \E i \in 1..Len(s) : OccursAt(s, sub, i)
    THEN CHOOSE i \in 1..Len(s) :
            /\ OccursAt(s, sub, i)
            /\ \A j \in 1..(i - 1) : ~OccursAt(s, sub, j)
    ELSE 0

\* s.replace(sub, by) with a string pattern: the first occurrence only
replace(s, sub, by) ==
    LET i == IndexOf(s, sub) IN
    IF i = 0 THEN s
    ELSE SubSeq(s, 1, i - 1) \o by \o SubSeq(s, i + Len(sub), Len(s))

\* (s.match(/sub/g) || []).length: non-overlapping matches, left to right
RECURSIVE CountMatches(_, _)
CountMatches(s, sub) ==
    LET i == IndexOf(s, sub) IN
    IF i = 0 THEN 0
    ELSE 1 + CountMatches(SubSeq(s, i + Len(sub), Len(s)), sub)

startsWith(s, c) == s # <<>> /\ s[1] = c
endsWith(s, c) == s # <<>> /\ s[Len(s)] = c

\* the element of a singleton: Value({body : v \in {e}}) is body with v bound
\* to the value of e, which is computed once, as for a const declaration
Value(singleton) == CHOOSE v \in singleton : TRUE

\* a message built by a template literal: the template and the interpolated strings
Message(template, parts) == [template |-> template, parts |-> parts]

(***************************************************************************)
(* FileRenamer.validatePattern                                             *)
(***************************************************************************)
\* the characters of /[<>:"/\\|?*\x00-\x1f]/
InvalidChars == {"<", ">", ":", "\"", "/", "\\", "|", "?", "*"} \cup ControlChars

\* the alternatives of /^(CON|PRN|AUX|NUL|COM[1-9]|LPT[1-9])$/i, upper-cased
ReservedNames ==
    {<<"C", "O", "N">>, <<"P", "R", "N">>, <<"A", "U", "X">>, <<"N", "U", "L">>}
    \cup {<<"C", "O", "M", DigitChars[d + 1]>> : d \in 1..9}
    \cup {<<"L", "P", "T", DigitChars[d + 1]>> : d \in 1..9}

\* longest pattern the validator accepts
MaxPatternLength == 200

ErrEmpty == Message("Pattern cannot be empty", <<>>)
ErrPlaceholder == Message("Pattern must contain exactly one {number} placeholder", <<>>)
ErrInvalidChars ==
    Message("Pattern contains invalid characters: < > : \" / \\ | ? * or control characters", <<>>)
ErrTooLong == Message("Pattern is too long (maximum 200 characters)", <<>>)
ErrReserved == Message("Pattern cannot use reserved Windows names", <<>>)
ErrDot == Message("Pattern cannot start or end with a dot", <<>>)

\* a validator that keeps the first error only
PushErrors_firstOnly(errors, more) == IF errors # <<>> THEN errors ELSE more

\* errors.push(...) of a check: the errors so far, then those of the check
PushErrors(errors, more) == errors \o more

validatePattern(pattern) ==
    IF pattern = <<>> \/ trim(pattern) = <<>>
    THEN [isValid |-> FALSE, errors |-> <<ErrEmpty>>]
    ELSE
        LET trimmedPattern == trim(pattern)
            numberPlaceholders == CountMatches(trimmedPattern, Placeholder)
            patternWithoutNumber == trim(replace(trimmedPattern, Placeholder, <<>>))
            e1 == IF numberPlaceholders = 0 THEN <<ErrPlaceholder>>
                  ELSE IF numberPlaceholders > 1 THEN <<ErrPlaceholder>>
                  ELSE <<>>
            e2 == IF \E i \in 1..Len(trimmedPattern) : trimmedPattern[i] \in InvalidChars
                  THEN <<ErrInvalidChars>> ELSE <<>>
            e3 == IF Len(trimmedPattern) > MaxPatternLength THEN <<ErrTooLong>> ELSE <<>>
            e4 == IF ToUpperCase(patternWithoutNumber) \in ReservedNames
                  THEN <<ErrReserved>> ELSE <<>>
            e5 == IF startsWith(trimmedPattern, ".") \/ endsWith(trimmedPattern, ".")
                  THEN <<ErrDot>> ELSE <<>>
            errors == PushErrors(PushErrors(PushErrors(PushErrors(e1, e2), e3), e4), e5)
        IN [isValid |-> Len(errors) = 0, errors |-> errors]

(***************************************************************************)
(* FileRenamer.generateNewName                                             *)
(***************************************************************************)
generateNewName(pattern, index, padding, extension) ==
    LET paddedNumber == padStart(StringOf(index), padding, "0")
        newName == replace(pattern, Placeholder, paddedNumber)
    IN IF extension # <<>> /\ trim(extension) # <<>>
       THEN newName \o extension
       ELSE newName

(***************************************************************************)
(* FileSystemManager.fileExists, over the state of the file system: fs is *)
(* [directoryHandle, access, folder], the names in the selected folder.   *)
(***************************************************************************)
\* faulty variant: the folder is never looked at
getFileHandle_stale(fs, fileName) ==
    IF fs.access = "denied" THEN "NotAllowedError" ELSE "NotFoundError"

\* FileSystemDirectoryHandle.getFileHandle(fileName): the handle, or the error thrown
getFileHandle(fs, fileName) ==
    IF fs.access = "denied" THEN "NotAllowedError"
    ELSE IF fileName \in fs.folder THEN "ok"
    ELSE "NotFoundError"

\* faulty variant: the handle is asked for with { create: true }
CreatedByGetFileHandle_create(fs, fileName) ==
    IF fs.access = "denied" THEN {} ELSE {fileName}

\* the names a getFileHandle(fileName) call adds to the folder: none, as the
\* call passes no { create: true }
CreatedByGetFileHandle(fs, fileName) == {}

\* faulty variant: an error other than NotFoundError is taken for "absent"
fileExists_optimistic(fs, fileName) ==
    fs.directoryHandle /\ getFileHandle(fs, fileName) = "ok"

fileExists(fs, fileName) ==
    IF ~fs.directoryHandle THEN FALSE
    ELSE LET outcome == getFileHandle(fs, fileName) IN
         IF outcome = "ok" THEN TRUE
         ELSE IF outcome = "NotFoundError" THEN FALSE
         ELSE TRUE

(***************************************************************************)
(* FileRenamer.checkForCollisions                                          *)
(***************************************************************************)
\* faulty variant: the names of the input files are not looked at
ExistingCollisions_none(newName, existingFiles) == <<>>

\* the collisions with the names of existingFiles (the first loop)
ExistingCollisions(newName, existingFiles) ==
    LET hit(file) == file.name = newName
        matching == SelectSeq(existingFiles, hit)
    IN [i \in 1..Len(matching) |->
            [type |-> "existing", fileName |-> newName]]

\* faulty variant: the answer of the existence probe is ignored
DirectoryCollisions_unchecked(fs, newName) == <<>>

\* the collision with the directory (the try block; fileExists throws nothing)
DirectoryCollisions(fs, newName) ==
    IF fileExists(fs, newName)
    THEN <<[type |-> "directory", fileName |-> newName]>>
    ELSE <<>>

checkForCollisions(fs, newName, existingFiles) ==
    LET collisions == ExistingCollisions(newName, existingFiles)
                      \o DirectoryCollisions(fs, newName)
    IN [hasCollisions |-> Len(collisions) > 0,
        collisions |-> collisions,
        probes |-> <<[fileName |-> newName, exists |-> fileExists(fs, newName)]>>]

(***************************************************************************)
(* FileRenamer.resolveCollision                                            *)
(***************************************************************************)
\* default of the maxAttempts parameter
MaxAttempts == 1000

\* faulty variant: the loop condition is attempts <= maxAttempts
LastAttempt_inclusive(maxAttempts) == maxAttempts

\* the last value of `attempts` the loop condition attempts < maxAttempts admits
LastAttempt(maxAttempts) == maxAttempts - 1

\* faulty variant: the probing starts two past the colliding index
ProbeIndex_skip(currentIndex, attempts) == currentIndex + attempts + 2

\* the index tried in iteration `attempts` (0-based)
ProbeIndex(currentIndex, attempts) == currentIndex + attempts + 1

\* faulty variant: the 0-based loop counter is reported
AttemptsMade_zeroBased(attempts) == attempts

\* the attempts count reported when iteration `attempts` finds a free name
AttemptsMade(attempts) == attempts + 1

ErrUnresolved(maxAttempts) ==
    Message("Could not resolve collision after ${maxAttempts} attempts",
            <<StringOf(maxAttempts)>>)

\* one iteration of the while loop: the name tried and whether it collides
ProbeAttempt(fs, pattern, currentIndex, padding, extension, existingFiles, attempts) ==
    LET newIndex == ProbeIndex(currentIndex, attempts)
        newName == generateNewName(pattern, newIndex, padding, extension)
        collisionCheck == checkForCollisions(fs, newName, existingFiles)
    IN [free |-> ~collisionCheck.hasCollisions,
        attempts |-> attempts,
        newName |-> newName,
        newIndex |-> newIndex,
        probes |-> collisionCheck.probes]

\* The iterations attempts = lo..hi of the while loop, run in order up to the
\* first free name: the iteration that found it (or free = FALSE) and the names
\* probed on the way.  The range is halved only to keep the evaluation shallow;
\* the right half is not evaluated when the left half has found a name.
RECURSIVE resolveLoop(_, _, _, _, _, _, _, _)
resolveLoop(fs, pattern, currentIndex, padding, extension, existingFiles, lo, hi) ==
    IF lo > hi
    THEN [free |-> FALSE, attempts |-> lo, newName |-> <<>>, newIndex |-> 0,
          probes |-> <<>>]
    ELSE IF lo = hi
    THEN ProbeAttempt(fs, pattern, currentIndex, padding, extension, existingFiles, lo)
    ELSE LET mid == (lo + hi) \div 2 IN
         Value({IF left.free THEN left
                ELSE [resolveLoop(fs, pattern, currentIndex, padding, extension,
                                  existingFiles, mid + 1, hi)
                         EXCEPT !.probes = left.probes \o @] :
                left \in {resolveLoop(fs, pattern, currentIndex, padding, extension,
                                      existingFiles, lo, mid)}})

resolveCollision(fs, pattern, currentIndex, padding, extension, existingFiles, maxAttempts) ==
    Value({IF found.free
           THEN [resolved |-> TRUE,
                 newName |-> found.newName,
                 newIndex |-> found.newIndex,
                 attempts |-> AttemptsMade(found.attempts),
                 originalIndex |-> currentIndex,
                 error |-> Message("", <<>>),
                 probes |-> found.probes]
           ELSE [resolved |-> FALSE,
                 newName |-> <<>>,
                 newIndex |-> 0,
                 attempts |-> maxAttempts,
                 originalIndex |-> currentIndex,
                 error |-> ErrUnresolved(maxAttempts),
                 probes |-> found.probes] :
           found \in {resolveLoop(fs, pattern, currentIndex, padding, extension,
                                  existingFiles, 0, LastAttempt(maxAttempts))}})

(***************************************************************************)
(* FileRenamer.generatePreview.  self is the FileRenamer instance          *)
(* [operationLog, collisionResolutions]; the loop variable i is 1-based    *)
(* here, so the code's i + 1 is i.                                         *)
(***************************************************************************)
\* faulty variant: the resolutions are collected in the list of the instance
NewCollisionResolutions_shared(self) == self.collisionResolutions

\* the local list the resolutions of one call are collected in
NewCollisionResolutions(self) == <<>>

\* faulty variant: the duplicate detection never fires
IsDuplicate_never(usedNames, newName) == FALSE

\* usedNames.has(newName)
IsDuplicate(usedNames, newName) == newName \in usedNames

\* originalIndex of a preview entry: i + 1 for the code's 0-based i
EntryOriginalIndex(i, currentIndex) == i

\* faulty variant: the next file starts one past the candidate, not past the index used
NextIndex_stale(currentIndex, actualIndex) == currentIndex + 1

\* currentIndex for the next file
NextIndex(currentIndex, actualIndex) == actualIndex + 1

\* previewData of a result that reports a planning failure
FailedPreviewData(previewData) == previewData

\* file.creationTime || file.lastModified
EntryCreationTime(file) ==
    IF file.creationTime # 0 THEN file.creationTime ELSE file.lastModified

ErrCouldNotResolve(file, resolution) ==
    Message("Could not resolve naming collision for \"${file.name}\": ${resolution.error}",
            <<file.name>> \o resolution.error.parts)

ErrDuplicate(newName, file) ==
    Message("Duplicate name generated: \"${newName}\" for files \"${file.name}\"",
            <<newName, file.name>>)

\* the rest of an iteration of the loop over files, once the collision check
\* and the resolution (when there was a collision) have been made
PlanChecked(st, i, file, candidate, collisionCheck, resolution) ==
    LET currentIndex == st.currentIndex
        collided == collisionCheck.hasCollisions
        probes == st.probes \o collisionCheck.probes \o resolution.probes
        newName == IF collided THEN resolution.newName ELSE candidate
        actualIndex == IF collided THEN resolution.newIndex ELSE currentIndex
        collisionResolved == collided
        collisionResolutions ==
            IF collided
            THEN Append(st.collisionResolutions,
                        [originalFile |-> file,
                         originalName |-> file.name,
                         originalIndex |-> currentIndex,
                         resolvedName |-> newName,
                         resolvedIndex |-> actualIndex,
                         attempts |-> resolution.attempts])
            ELSE st.collisionResolutions
    IN IF collided /\ ~resolution.resolved
       THEN [st EXCEPT !.status = "failed",
                       !.errors = <<ErrCouldNotResolve(file, resolution)>>,
                       !.probes = probes]
       ELSE IF IsDuplicate(st.usedNames, newName)
       THEN [st EXCEPT !.status = "failed",
                       !.errors = <<ErrDuplicate(newName, file)>>,
                       !.collisionResolutions = collisionResolutions,
                       !.probes = probes]
       ELSE [st EXCEPT !.previewData =
                           Append(@, [originalName |-> file.name,
                                      newName |-> newName,
                                      originalIndex |-> EntryOriginalIndex(i, currentIndex),
                                      actualIndex |-> actualIndex,
                                      file |-> file,
                                      collisionResolved |-> collisionResolved,
                                      size |-> file.size,
                                      creationTime |-> EntryCreationTime(file),
                                      extension |-> file.extension]),
                       !.usedNames = @ \cup {newName},
                       !.collisionResolutions = collisionResolutions,
                       !.currentIndex = NextIndex(currentIndex, actualIndex),
                       !.probes = probes]

\* one iteration of the loop over files; st holds the locals of generatePreview
PlanFile(fs, st, i, files, pattern, padding, resolveCollisions) ==
    LET file == files[i]
        currentIndex == st.currentIndex
        candidate == generateNewName(pattern, currentIndex, padding, file.extension)
        collisionCheck ==
            IF resolveCollisions
            THEN checkForCollisions(fs, candidate, files)
            ELSE [hasCollisions |-> FALSE, collisions |-> <<>>, probes |-> <<>>]
    IN Value({PlanChecked(st, i, file, candidate, collisionCheck, resolution) :
              resolution \in
                  {IF collisionCheck.hasCollisions
                   THEN resolveCollision(fs, pattern, currentIndex, padding,
                                         file.extension, files, MaxAttempts)
                   ELSE [resolved |-> FALSE, newName |-> <<>>, newIndex |-> 0,
                         attempts |-> 0, originalIndex |-> currentIndex,
                         error |-> Message("", <<>>), probes |-> <<>>]}})

\* faulty variant: the loop condition is i < files.length - 1
MoreFiles_short(i, files) == i < Len(files)

\* the loop condition i < files.length, for the 1-based i
MoreFiles(i, files) == i <= Len(files)

\* the loop over files, from file i on; a return inside the loop ends it
RECURSIVE PlanFiles(_, _, _, _, _, _, _)
PlanFiles(fs, st, i, files, pattern, padding, resolveCollisions) ==
    IF ~MoreFiles(i, files) \/ st.status = "failed" THEN st
    ELSE Value({PlanFiles(fs, next, i + 1, files, pattern, padding, resolveCollisions) :
                next \in {PlanFile(fs, st, i, files, pattern, padding, resolveCollisions)}})

\* faulty variant: the result of the validation is not looked at
ReturnsOnInvalid_never(patternValidation) == FALSE

\* the test `!patternValidation.isValid` that guards the first return
ReturnsOnInvalid(patternValidation) == ~patternValidation.isValid

\* the call: what it returns, the instance after it, and the names it probed
generatePreview(self, fs, files, pattern, padding, options) ==
    LET patternValidation == validatePattern(pattern) IN
    IF ReturnsOnInvalid(patternValidation)
    THEN [result |-> [success |-> FALSE,
                      errors |-> patternValidation.errors,
                      previewData |-> <<>>],
          self |-> self,
          probes |-> <<>>]
    ELSE
        Value({IF st.status = "failed"
               THEN [result |-> [success |-> FALSE,
                                 errors |-> st.errors,
                                 previewData |-> FailedPreviewData(st.previewData)],
                     self |-> self,
                     probes |-> st.probes]
               ELSE [result |-> [success |-> TRUE,
                                 errors |-> <<>>,
                                 previewData |-> st.previewData,
                                 collisionResolutions |-> st.collisionResolutions,
                                 totalFiles |-> Len(files),
                                 pattern |-> pattern,
                                 padding |-> padding],
                     self |-> [self EXCEPT !.collisionResolutions =
                                               st.collisionResolutions],
                     probes |-> st.probes] :
               st \in {PlanFiles(fs, [previewData |-> <<>>,
                                      usedNames |-> {},
                                      collisionResolutions |-> NewCollisionResolutions(self),
                                      currentIndex |-> options.startIndex,
                                      probes |-> <<>>,
                                      errors |-> <<>>,
                                      status |-> "running"],
                                 1, files, pattern, padding, options.resolveCollisions)}})

\* the folder after the existence probes of a call: fileExists asks for a
\* handle only when a directory is selected
FolderAfterProbes(fs, probes) ==
    IF ~fs.directoryHandle THEN fs.folder
    ELSE fs.folder \cup UNION {CreatedByGetFileHandle(fs, probes[p].fileName) :
                                  p \in 1..Len(probes)}

(***************************************************************************)
(* FileSystemManager.getFileMetadata: the record made for a file of the    *)
(* folder.  The extension runs from the last dot, when that dot is not the *)
(* first character.                                                        *)
(***************************************************************************)
\* fileName.lastIndexOf('.'), 1-based; 0 when there is no dot
LastDotIndex(fileName) ==
    IF \E i \in 1..Len(fileName) : fileName[i] = "."
    THEN CHOOSE i \in 1..Len(fileName) :
            /\ fileName[i] = "."
            /\ \A j \in (i + 1)..Len(fileName) : fileName[j] # "."
    ELSE 0

getFileMetadata(fileName, size, lastModified) ==
    LET lastDotIndex == LastDotIndex(fileName) IN
    [handle |-> fileName,
     name |-> fileName,
     size |-> size,
     lastModified |-> lastModified,
     creationTime |-> lastModified,
     extension |-> IF lastDotIndex > 1
                   THEN SubSeq(fileName, lastDotIndex, Len(fileName))
                   ELSE <<>>]

(***************************************************************************)
(* FileSystemManager.renameFile.  handles maps a file handle to the name   *)
(* its file bears now; the file is there when the folder holds that name.  *)
(***************************************************************************)
\* the characters of /[<>:"/\\|?*]/
RenameInvalidChars == {"<", ">", ":", "\"", "/", "\\", "|", "?", "*"}

\* longest file name renameFile accepts
MaxFileNameLength == 255

ErrNameEmpty == Message("File name cannot be empty", <<>>)
ErrNameInvalidChars == Message("File name contains invalid characters", <<>>)
ErrNameTooLong == Message("File name is too long (max 255 characters)", <<>>)

\* the error renameFile throws before it asks for the move: <<error>>, or <<>>
NameError(newName) ==
    IF newName = <<>> \/ trim(newName) = <<>>
    THEN <<[name |-> "Error", message |-> ErrNameEmpty]>>
    ELSE IF \E i \in 1..Len(newName) : newName[i] \in RenameInvalidChars
    THEN <<[name |-> "Error", message |-> ErrNameInvalidChars]>>
    ELSE IF Len(newName) > MaxFileNameLength
    THEN <<[name |-> "Error", message |-> ErrNameTooLong]>>
    ELSE <<>>

\* the error fileHandle.move rejects with, by its name; its message is the
\* browser's
MoveError(name) == [name |-> name, message |-> Message("${error.message}", <<name>>)]

\* the catch block of renameFile: the error thrown to the caller
renameFileError(error) ==
    IF error.name = "NotAllowedError"
    THEN Message("Permission denied to rename file: ${error.message}",
                 <<error.message.template>> \o error.message.parts)
    ELSE IF error.name = "NotFoundError"
    THEN Message("File not found or was deleted during operation", <<>>)
    ELSE IF error.name = "NoModificationAllowedError"
    THEN Message("File is locked or cannot be modified", <<>>)
    ELSE Message("Failed to rename file: ${error.message}",
                 <<error.message.template>> \o error.message.parts)

\* how fileHandle.move(newName) may settle: "ok", or the name of the error
MoveOutcomes(fs, handles, handle, newName) ==
    IF fs.access = "denied" THEN {"NotAllowedError"}
    ELSE IF handles[handle] \notin fs.folder THEN {"NotFoundError"}
    ELSE {"ok", "NoModificationAllowedError"}
         \cup (IF newName \in fs.folder /\ newName # handles[handle]
               THEN {"InvalidModificationError"} ELSE {})

\* the folder after the file of a handle has moved to newName
FolderAfterMove(folder, handles, handle, newName) ==
    (folder \ {handles[handle]}) \cup {newName}

\* the handles after it: a file that bore newName is overwritten
HandlesAfterMove(handles, handle, newName) ==
    [h \in DOMAIN handles |->
        IF h = handle THEN newName
        ELSE IF handles[h] = newName THEN <<>>
        ELSE handles[h]]

(***************************************************************************)
(* FileRenamer.executeRenaming.  ex holds the locals of a call: the        *)
(* entries, the kind of progress callback, the next entry i (1-based), the *)
(* entries whose rename is in flight, the results and the calls made so    *)
(* far (events); log is this.operationLog.  Time stamps are left out.      *)
(***************************************************************************)
\* the progress callback: absent, one that reports, one that throws
Callbacks == {"none", "reports", "throws"}

\* faulty variant: the 0-based loop variable is reported
ProgressCurrent_zeroBased(i) == i - 1

\* the first argument of progressCallback: i + 1 for the code's 0-based i
ProgressCurrent(i) == i

\* faulty variant: renameFile is called without await
AwaitsRename_fireAndForget == FALSE

\* the loop waits for renameFile to settle before it goes on
AwaitsRename == TRUE

\* faulty variant: an error ends the loop
AfterCatch_abort(next, n) == n + 1

\* the entry the loop goes on with after the catch block
AfterCatch(next, n) == next

\* faulty variant: a failure is not recorded in the results
PushFailed_dropped(failed, item, message) == failed

\* results.failed.push in the catch block
PushFailed(failed, item, message) ==
    Append(failed, [originalName |-> item.originalName,
                    newName |-> item.newName,
                    file |-> item.file,
                    error |-> message])

\* results.successful.push
PushSuccessful(successful, item) ==
    Append(successful, [originalName |-> item.originalName,
                        newName |-> item.newName,
                        file |-> item.file])

\* faulty variant: a failure is not written to the log
LogFailed_silent(log, item, message) == log

\* this.operationLog.push in the catch block
LogFailed(log, item, message) ==
    Append(log, [operation |-> "rename",
                 originalName |-> item.originalName,
                 newName |-> item.newName,
                 status |-> "failed",
                 error |-> <<message>>])

\* this.operationLog.push after a rename that succeeded
LogSuccess(log, item) ==
    Append(log, [operation |-> "rename",
                 originalName |-> item.originalName,
                 newName |-> item.newName,
                 status |-> "success",
                 error |-> <<>>])

\* this.operationLog when executeRenaming starts its loop
LogAtStart(operationLog) == <<>>

\* the catch block for entry `index`, the loop going on with entry `next`
Catch(run, index, next, message) ==
    LET ex == run.ex
        item == ex.previewData[index]
    IN [ex |-> [ex EXCEPT !.failed = PushFailed(@, item, message),
                          !.i = AfterCatch(next, Len(ex.previewData))],
        log |-> LogFailed(run.log, item, message)]

\* the progress callback is called for entry i, when there is one
Notify(ex) ==
    LET item == ex.previewData[ex.i] IN
    IF ex.callback = "none" THEN ex
    ELSE [ex EXCEPT !.events =
              Append(@, [kind |-> "progress",
                         current |-> ProgressCurrent(ex.i),
                         total |-> Len(ex.previewData),
                         originalName |-> item.originalName,
                         newName |-> item.newName])]

\* renameFile is called for entry i and asks for the move
Move(ex, folder) ==
    LET item == ex.previewData[ex.i] IN
    [ex EXCEPT !.events = Append(@, [kind |-> "rename",
                                     index |-> ex.i,
                                     handle |-> item.file.handle,
                                     newName |-> item.newName,
                                     inFlight |-> ex.inFlight,
                                     targetExists |-> item.newName \in folder]),
               !.inFlight = @ \cup {ex.i},
               !.i = @ + 1]

\* the loop runs from entry ex.i until it has to wait for a rename, or to its end
RECURSIVE RunLoop(_, _)
RunLoop(run, folder) ==
    LET ex == run.ex
        n == Len(ex.previewData)
    IN IF ex.i > n
       THEN [run EXCEPT !.ex.pc = IF ex.inFlight = {} THEN "returned" ELSE "running"]
       ELSE IF ex.callback = "throws"
       THEN RunLoop(Catch([run EXCEPT !.ex = Notify(ex)], ex.i, ex.i + 1,
                          Message("${error.message}", <<"progressCallback">>)),
                    folder)
       ELSE IF NameError(ex.previewData[ex.i].newName) # <<>>
       THEN RunLoop(Catch([run EXCEPT !.ex = Notify(ex)], ex.i, ex.i + 1,
                          renameFileError(NameError(ex.previewData[ex.i].newName)[1])),
                    folder)
       ELSE IF AwaitsRename
       THEN [run EXCEPT !.ex = Move(Notify(ex), folder)]
       ELSE RunLoop([run EXCEPT !.ex = Move(Notify(ex), folder)], folder)

\* a call that announces itself to the callback before its loop
InitialEvents_announce(previewData, callback) ==
    IF callback = "none" THEN <<>>
    ELSE <<[kind |-> "progress", current |-> 0, total |-> Len(previewData)]>>

\* the calls made before the loop: none
InitialEvents(previewData, callback) == <<>>

\* the call, up to its first wait
executeRenaming(operationLog, previewData, callback, folder) ==
    RunLoop([ex |-> [previewData |-> previewData,
                     callback |-> callback,
                     i |-> 1,
                     inFlight |-> {},
                     successful |-> <<>>,
                     failed |-> <<>>,
                     totalFiles |-> Len(previewData),
                     events |-> InitialEvents(previewData, callback),
                     pc |-> "running"],
             log |-> LogAtStart(operationLog)],
            folder)

\* the rename of entry j settles and the loop goes on from there
Settle(run, j, outcome, folderAfter) ==
    LET ex == run.ex
        item == ex.previewData[j]
        settled == [ex EXCEPT !.inFlight = @ \ {j},
                              !.events = Append(@, [kind |-> "settled",
                                                    index |-> j,
                                                    outcome |-> outcome])]
    IN IF outcome = "ok"
       THEN RunLoop([ex |-> [settled EXCEPT !.successful = PushSuccessful(@, item)],
                     log |-> LogSuccess(run.log, item)],
                    folderAfter)
       ELSE RunLoop(Catch([run EXCEPT !.ex = settled], j, settled.i,
                          renameFileError(MoveError(outcome))),
                    folderAfter)

(***************************************************************************)
(* The inputs the model draws from.                                        *)
(***************************************************************************)
\* 'f{number}', accepted by the validator, and 'f', which it rejects
Patterns == {<<"f">> \o Placeholder, <<"f">>}

\* two of the options of the padding select
Paddings == {0, 2}

StartIndices == 1..MaxStartIndex

\* files the user may have selected: x.a, y, f2.a
FileRecords ==
    {getFileMetadata(<<"x", ".", "a">>, 10, 3),
     getFileMetadata(<<"y">>, 5, 7),
     getFileMetadata(<<"f", "2", ".", "a">>, 5, 9)}

\* the sequences without repetition of at most n of the records in S
RECURSIVE SeqsUpTo(_, _)
SeqsUpTo(S, n) ==
    IF n = 0 THEN {<<>>}
    ELSE LET shorter == SeqsUpTo(S, n - 1) IN
         shorter \cup {Append(q, r) : <<q, r>> \in
                          {<<q, r>> \in shorter \X S :
                              /\ Len(q) = n - 1
                              /\ \A i \in 1..Len(q) : q[i] # r}}

FileSequences == SeqsUpTo(FileRecords, MaxFiles)

\* names somebody else may create in the folder, or delete: f1.a, f1, f01.a
OtherNames == {<<"f", "1", ".", "a">>, <<"f", "1">>, <<"f", "0", "1", ".", "a">>}

\* sequentially named files f<lo><extension> .. f<hi><extension>
SequentialNames(lo, hi, extension) ==
    {generateNewName(<<"f">> \o Placeholder, k, 0, extension) : k \in lo..hi}

\* a folder pre-populated with f1.a .. f1002.a: enough to exhaust the probing
\* of resolveCollision from index 1 and from index 2
Populated == SequentialNames(1, MaxAttempts + 2, <<".", "a">>)

\* a record built by a caller of generatePreview that gives the extension of
\* z.0 without its dot
CallerRecord ==
    [getFileMetadata(<<"z", ".", "0">>, 1, 1) EXCEPT !.extension = <<"0">>]

\* a folder that holds f2 .. f9
SmallRun == SequentialNames(2, 9, <<>>)

(***************************************************************************)
(* The state.                                                              *)
(***************************************************************************)
VARIABLES
    folder,           \* the names of the files in the folder on disk
    directoryHandle,  \* FileSystemManager.directoryHandle is set
    access,           \* "granted" or "denied": whether the handle may still read the folder
    fileRenamer,      \* the FileRenamer instance: operationLog, collisionResolutions
    pending,          \* <<arguments>> of the generatePreview call in progress, or <<>>
    last,             \* <<record>> of the last generatePreview call that returned,
                      \* kept until somebody else changes the file system; or <<>>
    handles,          \* the name the file of each file handle bears now
    execution,        \* <<locals>> of the last executeRenaming call, running or
                      \* returned, with the plan it was given; or <<>>
    ui,               \* the UIManager: currentStep, state, buttons
    previews,         \* the preview generations of the application in progress
    applied           \* <<record>> of a call of a function that keeps no state: its
                      \* arguments, and what it returned once it has; or <<>>

executionVars == <<handles, execution>>
appVars == <<ui, previews>>

pureVars == <<applied>>

vars == <<folder, directoryHandle, access, fileRenamer, pending, last,
          executionVars, appVars, pureVars>>

\* the file system as fileExists sees it
FileSystem == [directoryHandle |-> directoryHandle, access |-> access, folder |-> folder]

\* FileRenamer's constructor
NewFileRenamer == [operationLog |-> <<>>, collisionResolutions |-> <<>>]

\* the handles of the file records: each file bears the name it was read with
InitialHandles == [h \in {r.handle : r \in FileRecords \cup {CallerRecord}} |-> h]

\* the pattern the wizard starts with: 'file_{number}'
DefaultPattern == <<"f", "i", "l", "e", "_">> \o Placeholder

\* UIManager's constructor: the wizard at step 1, nothing loading, the
\* navigation buttons as showStep(1) leaves them
NewUIManager ==
    [currentStep |-> 1,
     prevDisabled |-> TRUE,
     nextDisabled |-> TRUE,
     patternInput |-> DefaultPattern,
     validationErrors |-> <<>>,
     state |-> [selectedFolder |-> FALSE,
                files |-> <<>>,
                sortedFiles |-> <<>>,
                config |-> [sortBy |-> "size-asc",
                            pattern |-> DefaultPattern,
                            padding |-> 3],
                previewData |-> <<>>,
                operationResult |-> <<>>],
     refreshDisabled |-> FALSE,
     executeDisabled |-> FALSE]

Init ==
    /\ folder \in SUBSET OtherNames
    /\ directoryHandle = FALSE
    /\ access = "granted"
    /\ fileRenamer = NewFileRenamer
    /\ pending = <<>>
    /\ last = <<>>
    /\ handles = InitialHandles
    /\ execution = <<>>
    /\ ui = NewUIManager
    /\ previews = <<>>
    /\ applied = <<>>

(***************************************************************************)
(* The environment: the user picks a folder, the page is unloaded, and     *)
(* other programs create and delete files in the folder.                   *)
(***************************************************************************)
\* FileSystemManager.selectFolder
SelectFolder ==
    /\ ~directoryHandle
    /\ directoryHandle' = TRUE
    /\ last' = <<>>
    /\ UNCHANGED <<folder, fileRenamer, pending, access, executionVars, appVars, pureVars>>

\* FileSystemManager.clear
Clear ==
    /\ directoryHandle
    /\ directoryHandle' = FALSE
    /\ last' = <<>>
    /\ UNCHANGED <<folder, fileRenamer, pending, access, executionVars, appVars, pureVars>>

CreateFile ==
    \E n \in OtherNames :
        /\ folder \subseteq OtherNames
        /\ n \notin folder
        /\ folder' = folder \cup {n}
        /\ last' = <<>>
        /\ UNCHANGED <<directoryHandle, fileRenamer, pending, access, executionVars, appVars, pureVars>>

DeleteFile ==
    \E n \in OtherNames :
        /\ folder \subseteq OtherNames
        /\ n \in folder
        /\ folder' = folder \ {n}
        /\ last' = <<>>
        /\ UNCHANGED <<directoryHandle, fileRenamer, pending, access, executionVars, appVars, pureVars>>

\* the permission to read the folder is withdrawn or given back: getFileHandle
\* then throws an error other than NotFoundError
ChangeAccess ==
    /\ access' = IF access = "granted" THEN "denied" ELSE "granted"
    /\ last' = <<>>
    /\ UNCHANGED <<folder, directoryHandle, fileRenamer, pending, executionVars, appVars, pureVars>>

\* the folder is filled with f1.a .. f1002.a
Populate ==
    /\ folder = {}
    /\ folder' = Populated
    /\ last' = <<>>
    /\ UNCHANGED <<directoryHandle, fileRenamer, pending, access, executionVars, appVars, pureVars>>

\* and emptied again
Depopulate ==
    /\ ~(folder \subseteq OtherNames)
    /\ folder' = {}
    /\ last' = <<>>
    /\ UNCHANGED <<directoryHandle, fileRenamer, pending, access, executionVars, appVars, pureVars>>

(***************************************************************************)
(* FileRenamer's operations.                                               *)
(***************************************************************************)
CallArguments(fileSequences) ==
    [files : fileSequences,
     pattern : Patterns,
     padding : Paddings,
     options : [resolveCollisions : BOOLEAN, startIndex : StartIndices]]

\* generatePreview is called: a call with the arguments of the last one keeps
\* that one's record to compare with
Invoke(arguments) ==
    /\ pending = <<>>
    /\ pending' = <<arguments>>
    /\ last' = IF last # <<>> /\ last[1].arguments = arguments THEN last ELSE <<>>
    /\ UNCHANGED <<folder, directoryHandle, fileRenamer, access, executionVars, appVars, pureVars>>

\* a call on an instance that is new or whose logs were cleared
InvokePreview ==
    /\ fileRenamer = NewFileRenamer
    /\ last = <<>>
    /\ \E arguments \in CallArguments(FileSequences) : Invoke(arguments)

\* generatePreview runs and returns.  prior is the result of the call before,
\* when that call had the same arguments and saw the same file system.
ReturnPreview ==
    /\ pending # <<>>
    /\ \E arguments \in {pending[1]} :
          \E call \in {generatePreview(fileRenamer, FileSystem, arguments.files,
                                       arguments.pattern, arguments.padding,
                                       arguments.options)} :
              /\ fileRenamer' = call.self
              /\ last' = <<[arguments |-> arguments,
                            fs |-> FileSystem,
                            result |-> call.result,
                            probes |-> call.probes,
                            prior |-> IF last # <<>> THEN <<last[1].result>> ELSE <<>>]>>
              /\ folder' = FolderAfterProbes(FileSystem, call.probes)
    /\ pending' = <<>>
    /\ UNCHANGED <<directoryHandle, access, executionVars, appVars, pureVars>>

\* FileRenamer.getCollisionResolutions
getCollisionResolutions(self) == self.collisionResolutions

\* FileRenamer.clearLogs
clearLogs ==
    /\ fileRenamer # NewFileRenamer
    /\ fileRenamer' = [operationLog |-> <<>>, collisionResolutions |-> <<>>]
    /\ UNCHANGED <<folder, directoryHandle, pending, last, access, executionVars, appVars, pureVars>>

Next ==
    \/ SelectFolder
    \/ Clear
    \/ CreateFile
    \/ DeleteFile
    \/ ChangeAccess
    \/ Populate
    \/ Depopulate
    \/ InvokePreview
    \/ ReturnPreview
    \/ clearLogs

Spec == Init /\ [][Next]_vars

(***************************************************************************)
(* Sequences of calls on one instance, over fewer arguments: a call may    *)
(* follow any other without the logs being cleared.                        *)
(***************************************************************************)
HistoryArguments ==
    {a \in CallArguments(FileSequences) :
        /\ a.padding = 0
        /\ a.options.resolveCollisions
        /\ a.options.startIndex = 1}

InvokeAgain == \E arguments \in HistoryArguments : Invoke(arguments)

NextHistory ==
    \/ SelectFolder
    \/ Clear
    \/ CreateFile
    \/ DeleteFile
    \/ InvokeAgain
    \/ ReturnPreview
    \/ clearLogs

SpecHistory == Init /\ [][NextHistory]_vars

(***************************************************************************)
(* generatePreview as a library function: a caller may pass records that   *)
(* getFileMetadata did not make.                                           *)
(***************************************************************************)
ApiFileSequences == SeqsUpTo(FileRecords \cup {CallerRecord}, MaxFiles)

InitApi ==
    /\ folder = SmallRun
    /\ directoryHandle = FALSE
    /\ access = "granted"
    /\ fileRenamer = NewFileRenamer
    /\ pending = <<>>
    /\ last = <<>>
    /\ handles = InitialHandles
    /\ execution = <<>>
    /\ ui = NewUIManager
    /\ previews = <<>>
    /\ applied = <<>>

InvokeApi ==
    /\ fileRenamer = NewFileRenamer
    /\ last = <<>>
    /\ \E arguments \in CallArguments(ApiFileSequences) : Invoke(arguments)

NextApi ==
    \/ SelectFolder
    \/ Clear
    \/ InvokeApi
    \/ ReturnPreview
    \/ clearLogs

SpecApi == InitApi /\ [][NextApi]_vars

(***************************************************************************)
(* Planning and execution: the selected files are in the folder, a plan is *)
(* made for them and executed, with any progress callback and with renames *)
(* that fail.                                                              *)
(***************************************************************************)
\* the names of the selected files
SelectedNames == {r.name : r \in FileRecords}

\* plans are made with the pattern 'f{number}' and no padding, numbering from 1
ExecArguments ==
    {a \in CallArguments(FileSequences) :
        /\ a.pattern = <<"f">> \o Placeholder
        /\ a.padding = 0
        /\ a.options.startIndex = 1}

InitExec ==
    /\ folder \in {SelectedNames, SelectedNames \cup {<<"f", "1", ".", "a">>}}
    /\ directoryHandle \in BOOLEAN
    /\ access = "granted"
    /\ fileRenamer = NewFileRenamer
    /\ pending = <<>>
    /\ last = <<>>
    /\ handles = InitialHandles
    /\ execution = <<>>
    /\ ui = NewUIManager
    /\ previews = <<>>
    /\ applied = <<>>

\* no executeRenaming call is running
Idle == IF execution = <<>> THEN TRUE ELSE execution[1].ex.pc = "returned"

\* generatePreview is called before anything is renamed
InvokePlan ==
    /\ execution = <<>>
    /\ last = <<>>
    /\ handles = InitialHandles
    /\ \E arguments \in ExecArguments : Invoke(arguments)

\* executeRenaming is called and runs up to its first wait; the record keeps
\* the plan held and the folder as it was at the call
Execute(previewData, callback) ==
    /\ \E run \in {executeRenaming(fileRenamer.operationLog, previewData,
                                     callback, folder)} :
          /\ execution' = <<[ex |-> run.ex,
                             plan |-> last,
                             folderAtCall |-> folder]>>
          /\ fileRenamer' = [fileRenamer EXCEPT !.operationLog = run.log]
    /\ UNCHANGED <<folder, directoryHandle, access, pending, last, handles>>

\* executeRenaming is called with the entries of the last preview
InvokeExecute ==
    /\ Idle
    /\ pending = <<>>
    /\ last # <<>>
    /\ \E callback \in Callbacks : Execute(last[1].result.previewData, callback)
    /\ UNCHANGED <<appVars, pureVars>>

\* the rename of entry j settles with the outcome; executeRenaming goes on to
\* its next wait or returns
SettleMove(j, outcome) ==
    LET item == execution[1].ex.previewData[j]
        moved == outcome = "ok"
        folderAfter ==
            IF moved
            THEN FolderAfterMove(folder, handles, item.file.handle, item.newName)
            ELSE folder
    IN /\ folder' = folderAfter
       /\ handles' = IF moved
                     THEN HandlesAfterMove(handles, item.file.handle, item.newName)
                     ELSE handles
       /\ \E run \in {Settle([ex |-> execution[1].ex,
                                log |-> fileRenamer.operationLog],
                               j, outcome, folderAfter)} :
             /\ execution' = <<[execution[1] EXCEPT !.ex = run.ex]>>
             /\ fileRenamer' = [fileRenamer EXCEPT !.operationLog = run.log]
       /\ UNCHANGED <<directoryHandle, access, pending, last>>

RenameSettles ==
    /\ execution # <<>>
    /\ execution[1].ex.pc = "running"
    /\ \E j \in execution[1].ex.inFlight :
          \E outcome \in MoveOutcomes(FileSystem, handles,
                                       execution[1].ex.previewData[j].file.handle,
                                       execution[1].ex.previewData[j].newName) :
              SettleMove(j, outcome)
    /\ UNCHANGED <<appVars, pureVars>>

NextExec ==
    \/ ChangeAccess
    \/ InvokePlan
    \/ ReturnPreview
    \/ InvokeExecute
    \/ RenameSettles
    \/ clearLogs

SpecExec == InitExec /\ [][NextExec]_vars

(***************************************************************************)
(* FileSorter.sortFiles                                                    *)
(***************************************************************************)
\* the keys of FileSorter.sortOptions
SortOptions == {"size-asc", "size-desc", "date-asc", "date-desc"}

\* the value the comparator takes from a file
SortValue(file, sortOption) ==
    IF sortOption \in {"size-asc", "size-desc"}
    THEN file.size
    ELSE IF file.creationTime # 0 THEN file.creationTime ELSE file.lastModified

\* a comparator that ignores the order of the option
Compare_ascOnly(a, b, sortOption) ==
    SortValue(a, sortOption) - SortValue(b, sortOption)

\* the comparator: negative when a goes before b
Compare(a, b, sortOption) ==
    IF sortOption \in {"size-asc", "date-asc"}
    THEN SortValue(a, sortOption) - SortValue(b, sortOption)
    ELSE SortValue(b, sortOption) - SortValue(a, sortOption)

\* a sort that puts the later of two equal elements first
TieBreak_reversed(j, i) == j > i

\* Array.prototype.sort keeps the order of equal elements: of two elements
\* that compare equal, the one at the smaller index j goes before the other
TieBreak(j, i) == j < i

\* the elements of files in the order of the comparator
Sorted(files, sortOption) ==
    LET goesBefore(j, i) ==
            \/ Compare(files[j], files[i], sortOption) < 0
            \/ Compare(files[j], files[i], sortOption) = 0 /\ TieBreak(j, i)
        rank(i) == 1 + Cardinality({j \in 1..Len(files) : goesBefore(j, i)})
    IN [k \in 1..Len(files) |-> files[CHOOSE i \in 1..Len(files) : rank(i) = k]]

\* a sort of the array that was passed
SortsCopy_inPlace == FALSE

\* const sortedFiles = [...files]: the array that is sorted is a copy
SortsCopy == TRUE

\* a key that names a member every object inherits: sortOptions[key] is a
\* function, which has no field
InheritedKeys == {"toString"}

\* this.sortOptions[sortOption]: an option, an inherited member, or undefined
OptionOf(sortOption) ==
    IF sortOption \in SortOptions THEN "option"
    ELSE IF sortOption \in InheritedKeys THEN "inherited"
    ELSE "undefined"

ErrInvalidSortOption(sortOption) == Message("Invalid sort option: ${sortOption}", <<sortOption>>)
ErrUnknownSortField == Message("Unknown sort field: ${option.field}", <<"undefined">>)

\* how a call of sortFiles ends: the error it threw or the array it returned,
\* whether that array was made by the call, and the array that was passed as
\* the call leaves it
SortThrows(files, error) ==
    [threw |-> <<error>>, returned |-> <<>>, fresh |-> FALSE, files |-> files]
SortReturns(files, array, fresh) ==
    [threw |-> <<>>, returned |-> <<array>>, fresh |-> fresh,
     files |-> IF fresh THEN files ELSE array]

\* sortFiles: the comparator runs only when there are two elements to compare
sortFiles(files, sortOption) ==
    IF Len(files) = 0 THEN SortReturns(files, <<>>, TRUE)
    ELSE IF OptionOf(sortOption) = "undefined"
    THEN SortThrows(files, ErrInvalidSortOption(sortOption))
    ELSE IF OptionOf(sortOption) = "inherited"
    THEN IF Len(files) >= 2
         THEN SortThrows(files, ErrUnknownSortField)
         ELSE SortReturns(files, files, SortsCopy)
    ELSE SortReturns(files, Sorted(files, sortOption), SortsCopy)

(***************************************************************************)
(* UIManager: the wizard.  u is the UIManager: currentStep, state, and the *)
(* disabled property of the buttons.                                       *)
(***************************************************************************)
\* UIManager.validatePatternSilentObject
validatePatternSilentObject(pattern) ==
    IF pattern = <<>> \/ trim(pattern) = <<>>
    THEN [isValid |-> FALSE, errors |-> <<ErrEmpty>>]
    ELSE LET e1 == IF CountMatches(pattern, Placeholder) # 1
                   THEN <<ErrPlaceholder>> ELSE <<>>
             e2 == IF \E i \in 1..Len(pattern) : pattern[i] \in InvalidChars
                   THEN <<Message("Pattern contains invalid characters", <<>>)>>
                   ELSE <<>>
         IN [isValid |-> Len(e1 \o e2) = 0, errors |-> e1 \o e2]

\* canProceed of updateNavigationButtons
canProceed(u) ==
    IF u.currentStep = 1 THEN u.state.selectedFolder /\ Len(u.state.files) > 0
    ELSE IF u.currentStep = 2
    THEN validatePatternSilentObject(u.patternInput).isValid
    ELSE IF u.currentStep = 3 THEN Len(u.state.previewData) > 0
    ELSE FALSE

updateNavigationButtons(u) ==
    [u EXCEPT !.prevDisabled = u.currentStep = 1,
              !.nextDisabled = ~canProceed(u)]

MaxSteps == 4

showStep(u, stepNumber) ==
    updateNavigationButtons([u EXCEPT !.currentStep = stepNumber])

previousStep(u) == IF u.currentStep > 1 THEN showStep(u, u.currentStep - 1) ELSE u

\* updatePreviewTable: with errors the table is emptied, the errors are
\* shown and nothing else
updatePreviewTable(u, previewData, errors) ==
    IF Len(errors) > 0 THEN [u EXCEPT !.validationErrors = errors]
    ELSE updateNavigationButtons([u EXCEPT !.validationErrors = <<>>,
                                          !.state.previewData = previewData])

\* showOperationResult followed by the updateState of handleRenameExecution
ShowResult(u, ex) ==
    [u EXCEPT !.executeDisabled = FALSE,
              !.state.operationResult = <<[successful |-> ex.successful,
                                           failed |-> ex.failed,
                                           totalFiles |-> ex.totalFiles]>>,
              !.state.files = <<>>,
              !.state.sortedFiles = <<>>,
              !.state.previewData = <<>>]

(***************************************************************************)
(* FileRenamerApp.handlePreviewGeneration: a preview generation in         *)
(* progress is the parameters it was started with, the locals st of        *)
(* generatePreview and the file i it is to check next.                     *)
(***************************************************************************)
\* the preview generation UIManager.generatePreview dispatches
NewPreview(u) ==
    [files |-> u.state.sortedFiles,
     pattern |-> u.state.config.pattern,
     padding |-> u.state.config.padding,
     overlapped |-> FALSE,
     i |-> 1,
     st |-> [previewData |-> <<>>,
             usedNames |-> {},
             collisionResolutions |-> <<>>,
             currentIndex |-> 1,
             probes |-> <<>>,
             errors |-> validatePattern(u.state.config.pattern).errors,
             status |-> IF validatePattern(u.state.config.pattern).isValid
                        THEN "running" ELSE "failed"]]

\* the generations in progress when another one is requested: each is
\* marked as having run while another generation was requested
Overlapped(tasks) == [k \in 1..Len(tasks) |-> [tasks[k] EXCEPT !.overlapped = TRUE]]

\* the generation has nothing more to wait for
PreviewEnded(task) == task.st.status = "failed" \/ ~MoreFiles(task.i, task.files)

\* handlePreviewGeneration after generatePreview has returned
ShowPreview(u, task) ==
    LET shown ==
            IF task.st.status = "failed"
            THEN updatePreviewTable(u, <<>>, task.st.errors)
            ELSE [updatePreviewTable(u, task.st.previewData, <<>>)
                     EXCEPT !.state.config.pattern = task.pattern,
                            !.state.config.padding = task.padding]
    IN [shown EXCEPT !.refreshDisabled = FALSE]

\* this.collisionResolutions after generatePreview has returned
ResolutionsAfter(self, task) ==
    IF task.st.status = "failed" THEN self
    ELSE [self EXCEPT !.collisionResolutions = task.st.collisionResolutions]

\* UIManager.generatePreview with the handler of its event, up to the
\* handler's first wait: app is [ui, previews, self], self the FileRenamer
Dispatched(app) ==
    LET loading == [app.ui EXCEPT !.refreshDisabled = TRUE]
        task == [NewPreview(app.ui) EXCEPT !.overlapped = app.previews # <<>>]
    IN IF PreviewEnded(task)
       THEN [ui |-> ShowPreview(loading, task),
             previews |-> Overlapped(app.previews),
             self |-> ResolutionsAfter(app.self, task)]
       ELSE [ui |-> loading,
             previews |-> Append(Overlapped(app.previews), task),
             self |-> app.self]

\* UIManager.nextStep, with the callback it gives to then
nextStep(app) ==
    IF app.ui.currentStep >= MaxSteps THEN app
    ELSE IF app.ui.currentStep = 3
    THEN Value({[dispatched EXCEPT !.ui =
                     IF Len(dispatched.ui.state.previewData) > 0
                     THEN showStep(dispatched.ui, 4)
                     ELSE dispatched.ui] :
                dispatched \in {Dispatched(app)}})
    ELSE [app EXCEPT !.ui = showStep(app.ui, app.ui.currentStep + 1)]

\* FileRenamerApp.handleFileSorting for the sortFiles event
handleFileSorting(app, sortBy) ==
    LET sorted == [app EXCEPT !.ui.state.sortedFiles =
                                  sortFiles(app.ui.state.files, sortBy).returned[1],
                              !.ui.state.config.sortBy = sortBy]
    IN IF Len(app.ui.state.previewData) > 0 THEN Dispatched(sorted) ELSE sorted

(***************************************************************************)
(* The application: the user's events and the file system operations that  *)
(* settle, in any order.                                                   *)
(***************************************************************************)
\* preview generations in progress at a time, at most
MaxPreviews == 2

App == [ui |-> ui, previews |-> previews, self |-> fileRenamer]

\* the application after an event whose handlers leave it as `app`
Becomes(app) ==
    /\ ui' = app.ui
    /\ previews' = app.previews
    /\ fileRenamer' = app.self

\* the names of the files of a list
NamesOf(files) == {files[i].name : i \in 1..Len(files)}

\* the folder the user picks holds x.a and y
AppFolder == {<<"x", ".", "a">>, <<"y">>}

\* the sort options the user chooses among
AppSortOptions == {"size-asc", "date-asc"}

\* the patterns the user types: 'file_{number}', and '.f{number}' which the
\* wizard accepts and FileRenamer refuses
AppPatterns == {DefaultPattern, <<".", "f">> \o Placeholder}

InitApp ==
    /\ folder = AppFolder
    /\ directoryHandle = FALSE
    /\ access = "granted"
    /\ fileRenamer = NewFileRenamer
    /\ pending = <<>>
    /\ last = <<>>
    /\ handles = InitialHandles
    /\ execution = <<>>
    /\ ui = NewUIManager
    /\ previews = <<>>
    /\ applied = <<>>

\* the Select Folder button: handleFolderSelection with the folder picked
\* and its files read in the order the directory gives them
ClickSelectFolder ==
    /\ ui.currentStep = 1
    /\ ~directoryHandle
    /\ directoryHandle' = TRUE
    /\ \E files \in FileSequences :
          /\ NamesOf(files) = folder
          /\ Becomes(nextStep(
                 [App EXCEPT !.ui = [updateNavigationButtons(
                                         [ui EXCEPT !.state.selectedFolder = TRUE])
                                       EXCEPT !.state.files = files,
                                              !.state.sortedFiles =
                                                  sortFiles(files, ui.state.config.sortBy).returned[1]]]))
    /\ UNCHANGED <<folder, access, pending, last, executionVars, pureVars>>

\* the sort select of step 2 changes
ChangeSort ==
    /\ ui.currentStep = 2
    /\ Len(ui.state.previewData) > 0 => Len(previews) < MaxPreviews
    /\ \E sortBy \in AppSortOptions \ {ui.state.config.sortBy} :
          Becomes(handleFileSorting(App, sortBy))
    /\ UNCHANGED <<folder, directoryHandle, access, pending, last, executionVars, pureVars>>

\* the pattern input of step 2 is edited
EditPattern ==
    /\ ui.currentStep = 2
    /\ \E pattern \in AppPatterns \ {ui.patternInput} :
          ui' = updateNavigationButtons([ui EXCEPT !.patternInput = pattern,
                                                  !.state.config.pattern = pattern])
    /\ UNCHANGED <<folder, directoryHandle, access, fileRenamer, pending, last,
                   executionVars, previews, pureVars>>

\* the Next button, or the ArrowRight key
ClickNext ==
    /\ ~ui.nextDisabled
    /\ ui.currentStep = 3 => Len(previews) < MaxPreviews
    /\ Becomes(nextStep(App))
    /\ UNCHANGED <<folder, directoryHandle, access, pending, last, executionVars, pureVars>>

\* the Previous button, or the ArrowLeft key
ClickPrevious ==
    /\ ~ui.prevDisabled
    /\ ui' = previousStep(ui)
    /\ UNCHANGED <<folder, directoryHandle, access, fileRenamer, pending, last,
                   executionVars, previews, pureVars>>

\* the Refresh Preview button of step 3
ClickRefresh ==
    /\ ui.currentStep = 3
    /\ ~ui.refreshDisabled
    /\ Len(previews) < MaxPreviews
    /\ Becomes(Dispatched(App))
    /\ UNCHANGED <<folder, directoryHandle, access, pending, last, executionVars, pureVars>>

\* the existence checks for the next file of a preview generation settle;
\* after the last file handlePreviewGeneration shows the preview
PreviewStep ==
    \E k \in 1..Len(previews) :
        \E task \in {[previews[k] EXCEPT
                          !.st = PlanFile(FileSystem, previews[k].st, previews[k].i,
                                          previews[k].files, previews[k].pattern,
                                          previews[k].padding, TRUE),
                          !.i = @ + 1]} :
            /\ folder' = FolderAfterProbes(FileSystem, task.st.probes)
            /\ IF PreviewEnded(task)
               THEN /\ previews' = SubSeq(previews, 1, k - 1)
                                      \o SubSeq(previews, k + 1, Len(previews))
                    /\ ui' = ShowPreview(ui, task)
                    /\ fileRenamer' = ResolutionsAfter(fileRenamer, task)
               ELSE /\ previews' = [previews EXCEPT ![k] = task]
                    /\ UNCHANGED <<ui, fileRenamer>>
            /\ UNCHANGED <<directoryHandle, access, pending, last, executionVars, pureVars>>

\* the Start Renaming button of step 4: UIManager.executeRename and
\* handleRenameExecution up to its first wait
ClickExecute ==
    /\ ui.currentStep = 4
    /\ ~ui.executeDisabled
    /\ IF Len(ui.state.previewData) = 0
       THEN UNCHANGED <<folder, directoryHandle, access, fileRenamer, pending, last,
                        executionVars, ui>>
       ELSE /\ Execute(ui.state.previewData, "reports")
            /\ ui' = IF execution'[1].ex.pc = "returned"
                     THEN ShowResult(ui, execution'[1].ex)
                     ELSE [ui EXCEPT !.executeDisabled = TRUE]
    /\ UNCHANGED <<previews, pureVars>>

\* a rename settles; after the last one handleRenameExecution shows the result
AppRenameSettles ==
    /\ execution # <<>>
    /\ execution[1].ex.pc = "running"
    /\ \E j \in execution[1].ex.inFlight :
          \E outcome \in MoveOutcomes(FileSystem, handles,
                                       execution[1].ex.previewData[j].file.handle,
                                       execution[1].ex.previewData[j].newName) :
              SettleMove(j, outcome)
    /\ ui' = IF execution'[1].ex.pc = "returned"
             THEN ShowResult(ui, execution'[1].ex)
             ELSE ui
    /\ UNCHANGED <<previews, pureVars>>

NextApp ==
    \/ ClickSelectFolder
    \/ ChangeSort
    \/ EditPattern
    \/ ClickNext
    \/ ClickPrevious
    \/ ClickRefresh
    \/ PreviewStep
    \/ ClickExecute
    \/ AppRenameSettles

SpecApp == InitApp /\ [][NextApp]_vars

(***************************************************************************)
(* Properties of generatePreview, stated on the record of the last call.   *)
(***************************************************************************)
Returned == last # <<>>
Arguments == last[1].arguments
Files == Arguments.files
Result == last[1].result
Entries == Result.previewData
Probes == last[1].probes

\* the name generatePreview builds for file i of the call at index k
NameAt(i, k) ==
    generateNewName(Arguments.pattern, k, Arguments.padding, Files[i].extension)

\* a name collides when an input file bears it or the folder the call saw holds it
Collides(name) ==
    \/ \E j \in 1..Len(Files) : Files[j].name = name
    \/ fileExists(last[1].fs, name)

\* the index tried first for file i, given the entries before it
CandidateIndex(i) ==
    IF i = 1 THEN Arguments.options.startIndex ELSE Entries[i - 1].actualIndex + 1

\* C1: in a result with success = true the newName values of the entries are
\* pairwise distinct.
C1_NewNamesDistinct ==
    Returned /\ Result.success =>
        \A i, j \in 1..Len(Entries) :
            i # j => Entries[i].newName # Entries[j].newName

\* a successful plan of two files, the second moved by collision resolution
C1_Witness ==
    /\ Returned /\ Result.success
    /\ Len(Entries) = 2
    /\ Entries[1].file = CallerRecord
    /\ Entries[2].collisionResolved

\* C2: in a successful plan made with collision resolution, no newName is the
\* name of an input file, and the existence probe made for it said "absent".
C2_NewNamesFree ==
    Returned /\ Result.success /\ Arguments.options.resolveCollisions =>
        \A i \in 1..Len(Entries) :
            /\ \A j \in 1..Len(Files) : Files[j].name # Entries[i].newName
            /\ \E p \in 1..Len(Probes) : Probes[p].fileName = Entries[i].newName
            /\ \A p \in 1..Len(Probes) :
                  Probes[p].fileName = Entries[i].newName => ~Probes[p].exists

\* a successful plan in which a probe found a name in the folder
C2_Witness ==
    /\ Returned /\ Result.success /\ Arguments.options.resolveCollisions
    /\ Len(Entries) = 2
    /\ \E p \in 1..Len(Probes) : Probes[p].exists
    /\ \E i \in 1..Len(Entries) : Entries[i].collisionResolved

\* entry i is the plan for input file i, for every input file
PlanCoversFiles ==
    /\ Len(Entries) = Len(Files)
    /\ \A i \in 1..Len(Entries) :
          /\ Entries[i].file = Files[i]
          /\ Entries[i].originalName = Files[i].name

\* C3 as claimed: for every valid pattern, padding and file sequence the
\* entries are as many as the input files, entry i being the plan for file i.
C3_Claimed ==
    Returned /\ validatePattern(Arguments.pattern).isValid => PlanCoversFiles

\* C3: whenever generatePreview returns success = true, the entries are as
\* many as the input files, entry i being the plan for file i.
C3_SuccessCoversFiles ==
    Returned /\ Result.success => PlanCoversFiles

\* a successful plan of two files with a resolved collision
C3_Witness ==
    /\ Returned /\ Result.success
    /\ Len(Files) = 2
    /\ Entries[1].collisionResolved

\* C4: whenever generatePreview returns success = false, the entry list it
\* returns is empty.
C4_Claimed ==
    Returned /\ ~Result.success => Entries = <<>>

\* the part of C5 about entry i
AssignedSmallestFree(i) ==
    LET candidate == CandidateIndex(i)
        actual == Entries[i].actualIndex
    IN /\ candidate <= actual
       /\ actual <= candidate + MaxAttempts
       /\ Entries[i].newName = NameAt(i, actual)
       /\ ~Collides(NameAt(i, actual))
       /\ \A k \in candidate..(actual - 1) : Collides(NameAt(i, k))
       /\ Entries[i].collisionResolved = (actual # candidate)

\* C5 as claimed: every planned file gets the smallest index k, candidate <= k
\* <= candidate + 1000, whose name does not collide, the candidate being
\* startIndex for the first file and the previous actualIndex + 1 after it.
C5_Claimed ==
    Returned => \A i \in 1..Len(Entries) : AssignedSmallestFree(i)

\* C5: the same, for the calls made with collision resolution enabled.
C5_SmallestFreeIndex ==
    Returned /\ Arguments.options.resolveCollisions =>
        \A i \in 1..Len(Entries) : AssignedSmallestFree(i)

\* the second file takes the 1000th index probed after its candidate
C5_Witness ==
    /\ Returned /\ Result.success /\ Arguments.options.resolveCollisions
    /\ Len(Entries) = 2
    /\ Entries[2].actualIndex = CandidateIndex(2) + MaxAttempts

\* C6: actualIndex is strictly increasing along the entries, and no later
\* entry gets an index that collision resolution skipped or took for an
\* earlier one.
C6_IndicesIncrease ==
    Returned =>
        /\ \A i \in 2..Len(Entries) :
              Entries[i].actualIndex > Entries[i - 1].actualIndex
        /\ \A i, j \in 1..Len(Entries) :
              i < j => Entries[j].actualIndex \notin
                          CandidateIndex(i)..Entries[i].actualIndex

\* the first file was moved by collision resolution and a second file follows
C6_Witness ==
    /\ Returned /\ Len(Entries) = 2
    /\ Entries[1].collisionResolved
    /\ Entries[1].file.extension # Entries[2].file.extension

\* every index from the candidate of file i to candidate + 1000 collides
Exhausted(i) ==
    \A k \in CandidateIndex(i)..(CandidateIndex(i) + MaxAttempts) :
        Collides(NameAt(i, k))

\* what C7 says of a call that meets an exhausted file i
StopsAt(i) ==
    /\ ~Result.success
    /\ Len(Entries) = i - 1
    /\ Len(Result.errors) = 1
    /\ \E q \in 1..Len(Result.errors[1].parts) :
          Result.errors[1].parts[q] = Files[i].name
    /\ Probes # <<>>
    /\ Probes[Len(Probes)].fileName = NameAt(i, CandidateIndex(i) + MaxAttempts)
    /\ \A p \in 1..Len(Probes) :
          Probes[p].fileName # NameAt(i, CandidateIndex(i) + MaxAttempts + 1)

\* C7 as claimed: when the candidate of a file and the 1000 names after it all
\* collide, generatePreview stops at that file with success = false and one
\* error naming the file; no later file is planned, index candidate + 1001 is
\* not probed.
C7_Claimed ==
    Returned =>
        \A i \in 1..Len(Files) :
            i <= Len(Entries) + 1 /\ Exhausted(i) => StopsAt(i)

\* C7: the same, for the calls made with a pattern the validator accepts and
\* with collision resolution enabled.
C7_StopsWhenExhausted ==
    Returned /\ validatePattern(Arguments.pattern).isValid
             /\ Arguments.options.resolveCollisions =>
        \A i \in 1..Len(Files) :
            i <= Len(Entries) + 1 /\ Exhausted(i) => StopsAt(i)

\* the second file of two exhausts the probing while index candidate + 1001 is free
C7_Witness ==
    /\ Returned /\ validatePattern(Arguments.pattern).isValid
    /\ Arguments.options.resolveCollisions
    /\ Len(Files) = 2 /\ Len(Entries) = 1
    /\ Exhausted(2)
    /\ ~Collides(NameAt(2, CandidateIndex(2) + MaxAttempts + 1))

\* C8: a call with the arguments of the call before it, against the same file
\* system, returns what that call returned, entries and collisionResolutions.
C8_Deterministic ==
    Returned /\ last[1].prior # <<>> => last[1].prior[1] = Result

\* the repeated call resolved a collision, and so did the one before
C8_Witness ==
    /\ Returned /\ last[1].prior # <<>>
    /\ Result.success
    /\ Len(Result.collisionResolutions) > 0
    /\ fileRenamer.collisionResolutions = Result.collisionResolutions

\* the entries with collisionResolved = true, in order
ResolvedEntries ==
    LET resolved(entry) == entry.collisionResolved IN SelectSeq(Entries, resolved)

\* C9: in a successful plan collisionResolutions has one record per entry with
\* collisionResolved = true, in entry order, with resolvedIndex = actualIndex,
\* resolvedName = newName, originalIndex < resolvedIndex and
\* attempts = resolvedIndex - originalIndex.
C9_ResolutionRecords ==
    Returned /\ Result.success =>
        /\ Len(Result.collisionResolutions) = Len(ResolvedEntries)
        /\ \A k \in 1..Len(ResolvedEntries) :
              LET record == Result.collisionResolutions[k]
                  entry == ResolvedEntries[k]
              IN /\ record.originalFile = entry.file
                 /\ record.originalName = entry.originalName
                 /\ record.resolvedIndex = entry.actualIndex
                 /\ record.resolvedName = entry.newName
                 /\ record.originalIndex < record.resolvedIndex
                 /\ record.attempts = record.resolvedIndex - record.originalIndex

\* a successful plan with one entry resolved and one not
C9_Witness ==
    /\ Returned /\ Result.success
    /\ Len(Entries) = 2
    /\ Len(Result.collisionResolutions) = 1
    /\ Result.collisionResolutions[1].attempts > 1

\* C10: the originalIndex of an entry is the index tried first for its file, so
\* originalIndex <= actualIndex, with equality exactly when collisionResolved
\* is false.
C10_Claimed ==
    Returned =>
        \A i \in 1..Len(Entries) :
            /\ Entries[i].originalIndex = CandidateIndex(i)
            /\ Entries[i].originalIndex <= Entries[i].actualIndex
            /\ (Entries[i].originalIndex = Entries[i].actualIndex)
                  = ~Entries[i].collisionResolved

\* the existence probe for a name failed: a directory is selected and
\* getFileHandle threw an error other than NotFoundError
ProbeFailed(name) ==
    /\ last[1].fs.directoryHandle
    /\ getFileHandle(last[1].fs, name) \notin {"ok", "NotFoundError"}

\* C11: a name whose existence probe failed with an error other than not-found
\* was reported as colliding and is the newName of no entry; when the probe
\* failed for every name tried, the call returned success = false.
C11_ProbeErrorsCollide ==
    Returned =>
        /\ \A p \in 1..Len(Probes) :
              ProbeFailed(Probes[p].fileName) =>
                  /\ Probes[p].exists
                  /\ \A i \in 1..Len(Entries) :
                        Entries[i].newName # Probes[p].fileName
        /\ (/\ Probes # <<>>
            /\ \A p \in 1..Len(Probes) : ProbeFailed(Probes[p].fileName))
              => ~Result.success

\* the folder cannot be read and all the names of the first file were probed
C11_Witness ==
    /\ Returned /\ ~Result.success
    /\ Len(Files) = 2
    /\ Len(Probes) = MaxAttempts + 1
    /\ \A p \in 1..Len(Probes) : ProbeFailed(Probes[p].fileName)

\* C12: a generatePreview call leaves the names in the folder as they were,
\* and hands back the file records it was given, whether it succeeds or fails.
C12_PreviewChangesNothing ==
    [][pending # <<>> /\ pending' = <<>> =>
          /\ folder' = folder
          /\ last'[1].arguments.files = pending[1].files
          /\ \A i \in 1..Len(last'[1].result.previewData) :
                last'[1].result.previewData[i].file = pending[1].files[i]]_vars

\* a call that probed a selected folder has returned a plan
C12_Witness ==
    /\ Returned /\ Result.success
    /\ last[1].fs.directoryHandle
    /\ Len(Entries) = 2
    /\ \E p \in 1..Len(Probes) : Probes[p].exists


(***************************************************************************)
(* Properties of executeRenaming, stated on the record of the last call.   *)
(***************************************************************************)
Executing == execution # <<>>
Run == execution[1].ex
Events == Run.events
Given == Run.previewData
Finished == Executing /\ Run.pc = "returned"

\* the positions in Events of the events of a kind
EventsOf(kind) == {k \in 1..Len(Events) : Events[k].kind = kind}

\* the call was given the entries of a successful plan, and the folder was
\* then as the planning had seen it
ExecutesFreshPlan ==
    /\ Executing
    /\ execution[1].plan[1].result.success
    /\ Given = execution[1].plan[1].result.previewData
    /\ execution[1].folderAtCall = execution[1].plan[1].fs.folder

\* the planning checked the names against the folder
PlanCheckedFolder ==
    /\ execution[1].plan[1].arguments.options.resolveCollisions
    /\ execution[1].plan[1].fs.directoryHandle

\* no rename was asked for with a name that a file in the folder bore
NoRenameOntoExisting == \A k \in EventsOf("rename") : ~Events[k].targetExists

\* C13 as claimed: if nobody else changes the folder between a successful
\* planning and its execution, every rename is invoked with a newName that
\* is not the name of any file in the folder.
C13_Claimed == ExecutesFreshPlan => NoRenameOntoExisting

\* C13: if the planning was made with collision resolution enabled and with
\* a folder selected, and nobody else changes the folder between the
\* successful planning and its execution, every rename is invoked with a
\* newName that is not the name of any file in the folder, whichever of the
\* earlier entries succeeded or failed.
C13_NoRenameOntoExisting ==
    ExecutesFreshPlan /\ PlanCheckedFolder => NoRenameOntoExisting

\* a checked plan with a resolved collision is executed: the rename of the
\* first entry succeeded and the rename of the second was asked for
C13_Witness ==
    /\ ExecutesFreshPlan
    /\ PlanCheckedFolder
    /\ \E i \in 1..Len(Given) : Given[i].collisionResolved
    /\ \E k \in EventsOf("settled") : Events[k].index = 1 /\ Events[k].outcome = "ok"
    /\ \E k \in EventsOf("rename") : Events[k].index = 2

\* C14: executeRenaming invokes the rename primitive for the entries in the
\* order given and one at a time: a rename is invoked only when no other is
\* in flight, after every rename invoked before it, which was for an earlier
\* entry, has completed with success or with an error.
C14_OneAtATime ==
    Executing =>
        /\ Cardinality(Run.inFlight) <= 1
        /\ \A k \in EventsOf("rename") :
              /\ Events[k].inFlight = {}
              /\ \A earlier \in EventsOf("rename") :
                    earlier < k =>
                        /\ Events[earlier].index < Events[k].index
                        /\ \E s \in EventsOf("settled") :
                              /\ earlier < s
                              /\ s < k
                              /\ Events[s].index = Events[earlier].index

\* two entries were renamed one after the other, the first with an error
C14_Witness ==
    /\ Finished
    /\ \E k \in EventsOf("rename") : Events[k].index = 1
    /\ \E k \in EventsOf("rename") : Events[k].index = 2
    /\ \E s \in EventsOf("settled") : Events[s].index = 1 /\ Events[s].outcome # "ok"

\* the rename of entry i was asked for
Attempted(i) == \E k \in EventsOf("rename") : Events[k].index = i

\* entry i is in the list with the message
ListedWith(list, i, message) ==
    \E f \in 1..Len(list) :
        /\ list[f].originalName = Given[i].originalName
        /\ list[f].newName = Given[i].newName
        /\ list[f].error = message

\* C15: a rename that fails for one entry never aborts the batch: the entry
\* is in failed with the error message, every later entry is still
\* attempted, and the call, which stops only to wait for a rename, returns
\* its result.
C15_FailureDoesNotAbort ==
    Executing =>
        /\ Run.pc \in {"running", "returned"}
        /\ Run.pc = "running" => Run.inFlight # {}
        /\ \A s \in EventsOf("settled") :
              Events[s].outcome # "ok" =>
                  /\ ListedWith(Run.failed, Events[s].index,
                                renameFileError(MoveError(Events[s].outcome)))
                  /\ \A i \in (Events[s].index + 1)..Len(Given) :
                        \/ Attempted(i)
                        \/ Run.pc = "running" /\ i >= Run.i

\* the call returned after the rename of the first entry failed and the
\* rename of the second succeeded
C15_Witness ==
    /\ Finished
    /\ \E s \in EventsOf("settled") : Events[s].index = 1 /\ Events[s].outcome # "ok"
    /\ \E s \in EventsOf("settled") : Events[s].index = 2 /\ Events[s].outcome = "ok"
    /\ Len(Run.failed) = 1

\* the entries of a result list that are entry i of the plan
Listed(list, i) ==
    {f \in 1..Len(list) :
        /\ list[f].originalName = Given[i].originalName
        /\ list[f].newName = Given[i].newName
        /\ list[f].file = Given[i].file}

\* a result list keeps the order of the plan
KeepsPlanOrder(list) ==
    \A i, j \in 1..Len(Given) :
        \A f \in Listed(list, i), g \in Listed(list, j) : i < j => f < g

\* C16: after executeRenaming returns, successful and failed partition the
\* entries given: every entry is once in exactly one of the two lists, each
\* list keeps the plan order, and
\* successful.length + failed.length = totalFiles = the number of entries.
C16_ResultsPartition ==
    Finished =>
        /\ Run.totalFiles = Len(Given)
        /\ Len(Run.successful) + Len(Run.failed) = Run.totalFiles
        /\ \A i \in 1..Len(Given) :
              Cardinality(Listed(Run.successful, i))
                  + Cardinality(Listed(Run.failed, i)) = 1
        /\ KeepsPlanOrder(Run.successful)
        /\ KeepsPlanOrder(Run.failed)

\* the call returned with the first entry renamed and the second failed
C16_Witness ==
    /\ Finished
    /\ Len(Given) = 2
    /\ Listed(Run.successful, 1) # {}
    /\ Listed(Run.failed, 2) # {}

\* the entries a call has dealt with: attempted and no longer in flight
Done(ex) == (1..(ex.i - 1)) \ ex.inFlight

\* the elements of a set of numbers in increasing order
Ascending(S) ==
    CHOOSE q \in [1..Cardinality(S) -> S] :
        \A a, b \in 1..Cardinality(S) : a < b => q[a] < q[b]

\* the log entry that the results of a call ask for entry i
LogEntryFor(ex, i) ==
    LET item == ex.previewData[i]
        same(r) == r.originalName = item.originalName /\ r.newName = item.newName
    IN IF \E f \in 1..Len(ex.successful) : same(ex.successful[f])
       THEN [operation |-> "rename",
             originalName |-> item.originalName,
             newName |-> item.newName,
             status |-> "success",
             error |-> <<>>]
       ELSE [operation |-> "rename",
             originalName |-> item.originalName,
             newName |-> item.newName,
             status |-> "failed",
             error |-> <<ex.failed[CHOOSE f \in 1..Len(ex.failed) :
                                      same(ex.failed[f])].error>>]

\* the log entries asked for a set of entries, in attempt order
LogEntriesFor(ex, S) == [k \in 1..Cardinality(S) |-> LogEntryFor(ex, Ascending(S)[k])]

\* a step of executeRenaming: the call, or the call going on after a rename
ExecutionStep == execution' # execution

\* the entries dealt with in a step of executeRenaming
DoneInStep ==
    Done(execution'[1].ex)
        \ (IF Executing /\ Run.pc = "running" THEN Done(Run) ELSE {})

\* C17: executeRenaming appends exactly one operation-log entry per
\* attempted entry, in attempt order, with status 'success' exactly when the
\* entry is in successful and 'failed', with the error, exactly when it is
\* in failed: every step of a call appends the entries of what it dealt
\* with to the log, which at the call is the log before or an empty one.
C17_OneLogEntryPerAttempt ==
    [][ExecutionStep =>
          \E before \in {fileRenamer.operationLog} \cup
                         (IF Executing /\ Run.pc = "running" THEN {} ELSE {<<>>}) :
              fileRenamer'.operationLog =
                  before \o LogEntriesFor(execution'[1].ex, DoneInStep)]_vars

\* the call returned with the second entry failed and the first renamed,
\* and the log holds both
C17_Witness ==
    /\ Finished
    /\ Len(Given) = 2
    /\ Listed(Run.failed, 2) # {}
    /\ Listed(Run.successful, 1) # {}
    /\ Len(fileRenamer.operationLog) = 2
    /\ fileRenamer.operationLog[2].status = "failed"

\* p is an initial part of q
IsPrefix(p, q) == Len(p) <= Len(q) /\ SubSeq(q, 1, Len(p)) = p

\* C18 as claimed: the operation log is append-only and is emptied only by
\* an explicit clearLogs call: every step that is not a clearLogs call keeps
\* the entries the log held, those of an executeRenaming run before included.
C18_Claimed ==
    [][IsPrefix(fileRenamer.operationLog, fileRenamer'.operationLog)
         \/ clearLogs]_vars

\* the progress notifications made so far, in the order they were made
Notifications == [k \in 1..Cardinality(EventsOf("progress")) |->
                     Events[Ascending(EventsOf("progress"))[k]]]

\* C19: when a progress callback is supplied, executeRenaming calls it
\* exactly once per entry, in plan order, before the rename of that entry is
\* attempted, with current = 1, 2, ..., n, total = n and the entry's
\* originalName and newName.
C19_ProgressPerEntry ==
    Executing /\ Run.callback # "none" =>
        /\ Len(Notifications) = Run.i - 1
        /\ Finished => Len(Notifications) = Len(Given)
        /\ \A k \in 1..Len(Notifications) :
              /\ Notifications[k].current = k
              /\ Notifications[k].total = Len(Given)
              /\ Notifications[k].originalName = Given[k].originalName
              /\ Notifications[k].newName = Given[k].newName
        /\ \A r \in EventsOf("rename") :
              \E p \in EventsOf("progress") :
                  p < r /\ Events[p].current = Events[r].index

\* a call with a callback that reports returned after two renames
C19_Witness ==
    /\ Finished
    /\ Run.callback = "reports"
    /\ Len(Given) = 2
    /\ Attempted(1)
    /\ Attempted(2)
    /\ Len(Notifications) = 2

(***************************************************************************)
(* Properties of the application.                                          *)
(***************************************************************************)
\* a rename of an execution is in flight
RenameInFlight == Executing /\ Run.inFlight # {}

\* C20 as claimed: under any sequence of user events no existence check of
\* a preview generation is in flight while a rename of an execution is, and
\* no two preview generations are in progress together.
C20_Claimed ==
    /\ Len(previews) <= 1
    /\ ~(previews # <<>> /\ RenameInFlight)

\* the preview generation that completed last has failed: its errors are shown
LastPreviewFailed == ui.validationErrors # <<>>

\* C21 as claimed: after the most recent preview generation has failed the
\* wizard is not at step 4 and no rename is executed, until a later
\* generation succeeds.
C21_Claimed == LastPreviewFailed => ui.currentStep # 4 /\ ~RenameInFlight

(***************************************************************************)
(* Further properties of generatePreview.                                  *)
(***************************************************************************)
\* C22: validation precedes all planning work: a generatePreview call with a
\* pattern that validatePattern rejects returns success=false with exactly
\* the validator's errors, makes no existence check in the folder, and
\* leaves the stored collisionResolutions as they were.
C22_ValidationFirst ==
    [][pending # <<>> /\ pending' = <<>>
          /\ ~validatePattern(pending[1].pattern).isValid
       => /\ ~last'[1].result.success
          /\ last'[1].result.errors = validatePattern(pending[1].pattern).errors
          /\ last'[1].probes = <<>>
          /\ folder' = folder
          /\ fileRenamer'.collisionResolutions = fileRenamer.collisionResolutions]_vars

\* a call with a rejected pattern has returned on an instance that holds the
\* resolutions of an earlier call, with a folder selected and files given
C22_Witness ==
    /\ Returned
    /\ ~validatePattern(Arguments.pattern).isValid
    /\ Files # <<>>
    /\ last[1].fs.directoryHandle
    /\ fileRenamer.collisionResolutions # <<>>

(***************************************************************************)
(* sortFiles applied to file sequences.  A call is drawn with its          *)
(* arguments; the one step applies the function and keeps what came back.  *)
(***************************************************************************)
\* the longest file sequence sorted
MaxSortLen == 3

\* the records sorted: x.a and f2.a are created at the same time, y and f2.a
\* have the same size, and e is an empty file whose creation time is 0 and
\* which was modified when y was
SortRecords ==
    {getFileMetadata(<<"x", ".", "a">>, 10, 3),
     getFileMetadata(<<"y">>, 5, 7),
     [getFileMetadata(<<"f", "2", ".", "a">>, 5, 9) EXCEPT !.creationTime = 3],
     [getFileMetadata(<<"e">>, 0, 7) EXCEPT !.creationTime = 0]}

\* the keys sortFiles is called with: its four, one that names nothing, and
\* one that names an inherited member
SortKeys == SortOptions \cup {"name-asc"} \cup InheritedKeys

\* the file sequences sortFiles is called with
SortInputs ==
    UNION {[1..n -> SortRecords] : n \in 0..MaxSortLen}

InitSort ==
    /\ folder = {}
    /\ directoryHandle = FALSE
    /\ access = "granted"
    /\ fileRenamer = NewFileRenamer
    /\ pending = <<>>
    /\ last = <<>>
    /\ handles = InitialHandles
    /\ execution = <<>>
    /\ ui = NewUIManager
    /\ previews = <<>>
    /\ applied \in {<<[function |-> "sortFiles", files |-> files,
                       sortOption |-> sortOption, result |-> <<>>]>> :
                        files \in SortInputs, sortOption \in SortKeys}

\* the call is made and ends
ApplySort ==
    /\ applied # <<>>
    /\ applied[1].result = <<>>
    /\ applied' = <<[applied[1] EXCEPT
                        !.result = <<sortFiles(applied[1].files,
                                               applied[1].sortOption)>>]>>
    /\ UNCHANGED <<folder, directoryHandle, access, fileRenamer, pending, last,
                   executionVars, appVars>>

NextSort == ApplySort

SpecSort == InitSort /\ [][NextSort]_vars

\* the sortFiles call has ended; what it was given and how it ended
SortEnded == applied # <<>> /\ applied[1].result # <<>>
SortGiven == applied[1].files
SortKey == applied[1].sortOption
SortEnd == applied[1].result[1]
SortOutput == SortEnd.returned[1]

\* how often record r occurs in sequence s
Occurrences(s, r) == Cardinality({i \in 1..Len(s) : s[i] = r})

\* sequence t holds the records of sequence s, each as often as s does
IsPermutation(s, t) ==
    /\ Len(s) = Len(t)
    /\ \A i \in 1..Len(s) : Occurrences(s, s[i]) = Occurrences(t, s[i])

\* the sort values along sequence s follow the order of the key
OrderedBy(s, sortOption) ==
    \A k \in 1..(Len(s) - 1) :
        IF sortOption \in {"size-asc", "date-asc"}
        THEN SortValue(s[k], sortOption) <= SortValue(s[k + 1], sortOption)
        ELSE SortValue(s[k], sortOption) >= SortValue(s[k + 1], sortOption)

\* the records of s whose sort value is v, in the order of s
WithValue(s, sortOption, v) ==
    SelectSeq(s, LAMBDA file : SortValue(file, sortOption) = v)

\* C23: for every non-empty file sequence and each of the four keys,
\* sortFiles returns a permutation of the input that is ordered by the key:
\* non-decreasing sort values for -asc, non-increasing for -desc.
C23_SortedPermutation ==
    SortEnded /\ SortGiven # <<>> /\ SortKey \in SortOptions =>
        /\ SortEnd.threw = <<>>
        /\ SortEnd.returned # <<>>
        /\ IsPermutation(SortGiven, SortOutput)
        /\ OrderedBy(SortOutput, SortKey)

\* three records of three different sizes, given smallest first, were sorted
\* largest first
C23_Witness ==
    /\ SortEnded
    /\ SortKey = "size-desc"
    /\ Len(SortGiven) = MaxSortLen
    /\ SortValue(SortGiven[1], SortKey) < SortValue(SortGiven[2], SortKey)
    /\ SortValue(SortGiven[2], SortKey) < SortValue(SortGiven[3], SortKey)
    /\ SortOutput # SortGiven

\* C24: sortFiles is stable for all four keys: records with equal sort value
\* appear in the output in the relative order they have in the input, for
\* descending keys as for ascending ones.
C24_Stable ==
    SortEnded /\ SortGiven # <<>> /\ SortKey \in SortOptions =>
        \A i \in 1..Len(SortGiven) :
            LET v == SortValue(SortGiven[i], SortKey) IN
            WithValue(SortOutput, SortKey, v) = WithValue(SortGiven, SortKey, v)

\* a descending sort has moved a record past two different records of equal
\* sort value
C24_Witness ==
    /\ SortEnded
    /\ SortKey = "date-desc"
    /\ Len(SortGiven) = MaxSortLen
    /\ SortGiven[1] # SortGiven[2]
    /\ SortValue(SortGiven[1], SortKey) = SortValue(SortGiven[2], SortKey)
    /\ SortValue(SortGiven[3], SortKey) > SortValue(SortGiven[1], SortKey)
    /\ SortOutput = <<SortGiven[3], SortGiven[1], SortGiven[2]>>

\* C25: sortFiles never mutates its input: after any call the sequence that
\* was passed has the same records in the same order, and a returned
\* sequence is another object than the one passed.
C25_InputUntouched ==
    SortEnded =>
        /\ SortEnd.files = SortGiven
        /\ SortEnd.returned # <<>> => SortEnd.fresh

\* a sequence that was not in the order of the key was sorted
C25_Witness ==
    /\ SortEnded
    /\ SortKey \in SortOptions
    /\ SortEnd.returned # <<>>
    /\ ~OrderedBy(SortGiven, SortKey)
    /\ SortOutput # SortGiven

\* C26: for every input file sequence, of any length, sortFiles called with
\* a key outside the four fails with an error and returns no sequence.
C26_Claimed ==
    SortEnded /\ SortKey \notin SortOptions =>
        /\ SortEnd.threw # <<>>
        /\ SortEnd.returned = <<>>

(***************************************************************************)
(* validatePattern applied to patterns.                                    *)
(***************************************************************************)
\* a string of n characters c
Repeat(c, n) == [i \in 1..n |-> c]

\* the patterns validated: what precedes the text, the text, the
\* placeholders that follow it, and what ends the pattern
PatternLeads == {<<>>, <<".">>, <<" ">>}
PatternTexts ==
    {<<>>, <<"f">>, <<"C", "O", "N">>, <<"l", "p", "t", "1">>, <<"f", "<">>,
     Repeat("a", MaxPatternLength + 1)}
PatternPlaceholders == {<<>>, Placeholder, Placeholder \o Placeholder}
PatternTrails == {<<>>, <<".">>, <<" ">>}
ValidatedPatterns ==
    {lead \o text \o number \o trail :
        lead \in PatternLeads, text \in PatternTexts,
        number \in PatternPlaceholders, trail \in PatternTrails}

InitPattern ==
    /\ folder = {}
    /\ directoryHandle = FALSE
    /\ access = "granted"
    /\ fileRenamer = NewFileRenamer
    /\ pending = <<>>
    /\ last = <<>>
    /\ handles = InitialHandles
    /\ execution = <<>>
    /\ ui = NewUIManager
    /\ previews = <<>>
    /\ applied \in {<<[function |-> "validatePattern", pattern |-> pattern,
                       result |-> <<>>]>> : pattern \in ValidatedPatterns}

\* the call is made and returns
ApplyValidate ==
    /\ applied # <<>>
    /\ applied[1].result = <<>>
    /\ applied' = <<[applied[1] EXCEPT
                        !.result = <<validatePattern(applied[1].pattern)>>]>>
    /\ UNCHANGED <<folder, directoryHandle, access, fileRenamer, pending, last,
                   executionVars, appVars>>

NextPattern == ApplyValidate

SpecPattern == InitPattern /\ [][NextPattern]_vars

\* the validatePattern call has returned; its pattern and what it returned
Validated == applied # <<>> /\ applied[1].result # <<>>
ValidatedPattern == applied[1].pattern
Validation == applied[1].result[1]

\* the rules of a pattern, each with the error that reports it
BreaksCount(pattern) == CountMatches(trim(pattern), Placeholder) # 1
BreaksChars(pattern) ==
    \E i \in 1..Len(pattern) : pattern[i] \in InvalidChars
BreaksLength(pattern) == Len(trim(pattern)) > MaxPatternLength
BreaksReserved(pattern) ==
    ToUpperCase(trim(replace(trim(pattern), Placeholder, <<>>))) \in ReservedNames
BreaksDot(pattern) ==
    LET t == trim(pattern) IN t[1] = "." \/ t[Len(t)] = "."
RuleErrors(pattern) ==
    (IF BreaksCount(pattern) THEN {ErrPlaceholder} ELSE {})
    \cup (IF BreaksChars(pattern) THEN {ErrInvalidChars} ELSE {})
    \cup (IF BreaksLength(pattern) THEN {ErrTooLong} ELSE {})
    \cup (IF BreaksReserved(pattern) THEN {ErrReserved} ELSE {})
    \cup (IF BreaksDot(pattern) THEN {ErrDot} ELSE {})

\* C27: for a pattern that is non-empty after trimming, validatePattern
\* reports one error for each violated rule (placeholder count, forbidden
\* character, length, reserved name, leading or trailing dot) without
\* stopping at the first, and isValid is true exactly when no rule is
\* violated; for an empty or whitespace-only pattern it returns only the
\* empty-pattern error.
C27_EveryViolation ==
    Validated =>
        IF trim(ValidatedPattern) = <<>>
        THEN Validation = [isValid |-> FALSE, errors |-> <<ErrEmpty>>]
        ELSE /\ {Validation.errors[i] : i \in 1..Len(Validation.errors)}
                    = RuleErrors(ValidatedPattern)
             /\ Len(Validation.errors) = Cardinality(RuleErrors(ValidatedPattern))
             /\ Validation.isValid <=> RuleErrors(ValidatedPattern) = {}

\* a pattern that violates the first rule, the last, and one between them
\* has been validated, and three errors were reported
C27_Witness ==
    /\ Validated
    /\ BreaksCount(ValidatedPattern)
    /\ BreaksChars(ValidatedPattern) \/ BreaksLength(ValidatedPattern)
    /\ BreaksDot(ValidatedPattern)
    /\ Len(Validation.errors) = 3

(***************************************************************************)
(* The names of a plan.                                                    *)
(***************************************************************************)
\* the number a string of decimal digits denotes
RECURSIVE NumberOf(_)
NumberOf(digits) ==
    IF digits = <<>> THEN 0
    ELSE 10 * NumberOf(SubSeq(digits, 1, Len(digits) - 1))
         + (CHOOSE d \in 0..9 : DigitChars[d + 1] = digits[Len(digits)])

\* string digits renders number n with at least padding digits: it is not
\* cut, and it has a leading zero only to reach padding digits
Renders(digits, n, padding) ==
    /\ Len(digits) >= 1
    /\ \A i \in 1..Len(digits) : \E d \in 0..9 : DigitChars[d + 1] = digits[i]
    /\ NumberOf(digits) = n
    /\ Len(digits) >= padding
    /\ Len(digits) > padding /\ Len(digits) > 1 => digits[1] # "0"

\* where the placeholder of the pattern starts
PlaceholderAt(pattern) ==
    CHOOSE i \in 1..Len(pattern) :
        /\ SubSeq(pattern, i, i + Len(Placeholder) - 1) = Placeholder
        /\ \A j \in 1..(i - 1) :
               SubSeq(pattern, j, j + Len(Placeholder) - 1) # Placeholder

\* newName is the pattern with its placeholder replaced by a rendering of
\* index n, followed by the extension
HasFormat(newName, pattern, n, padding, extension) ==
    LET before == SubSeq(pattern, 1, PlaceholderAt(pattern) - 1)
        after == SubSeq(pattern, PlaceholderAt(pattern) + Len(Placeholder),
                        Len(pattern))
        width == Len(newName) - Len(before) - Len(after) - Len(extension)
        digits == SubSeq(newName, Len(before) + 1, Len(before) + width)
    IN /\ width >= 1
       /\ newName = before \o digits \o after \o extension
       /\ Renders(digits, n, padding)

\* C28: every planned newName is the pattern with its single placeholder
\* replaced by the assigned index rendered with at least padding digits
\* (never truncated, no leading zeros when padding is 0), followed by the
\* file's own extension when it has one and by nothing when it has none.
C28_NameFormat ==
    Returned =>
        \A i \in 1..Len(Entries) :
            HasFormat(Entries[i].newName, Arguments.pattern,
                      Entries[i].actualIndex, Arguments.padding,
                      Entries[i].file.extension)

\* a plan of two files: one with an extension, given an index of three
\* digits or more, and one without extension
C28_Witness ==
    /\ Returned
    /\ Len(Entries) = 2
    /\ \E i \in 1..Len(Entries) :
           /\ Entries[i].actualIndex >= 100
           /\ Entries[i].file.extension # <<>>
    /\ \E i \in 1..Len(Entries) : Entries[i].file.extension = <<>>

(***************************************************************************)
(* Further properties of executeRenaming.                                  *)
(***************************************************************************)
\* C29: executeRenaming on an empty entry list returns a result with empty
\* successful and failed lists and totalFiles = 0, and calls neither the
\* rename primitive nor the progress callback; it is not an error.
C29_EmptyPlan ==
    Executing /\ Given = <<>> =>
        /\ Finished
        /\ Run.successful = <<>>
        /\ Run.failed = <<>>
        /\ Run.totalFiles = 0
        /\ Events = <<>>
        /\ Run.inFlight = {}

\* executeRenaming was called with no entries and with a progress callback,
\* in a folder that holds files
C29_Witness ==
    /\ Executing
    /\ Given = <<>>
    /\ Run.callback # "none"
    /\ folder # {}

(***************************************************************************)
(* Further properties of the application.                                  *)
(***************************************************************************)
\* C30: the wizard moves from step 3 to step 4 only after the preview
\* generation started by that Next action has completed, and the non-empty
\* check that guards the move is made on the preview data that generation
\* produced: at the move no generation has been left in progress, and the
\* generation has not failed.
C30_Claimed ==
    [][ui.currentStep = 3 /\ ui'.currentStep = 4
       => /\ Len(previews') <= Len(previews)
          /\ ui'.validationErrors = <<>>]_vars

\* the files of the entries of a preview, in their order
PlannedFiles(previewData) == [i \in 1..Len(previewData) |-> previewData[i].file]

\* the entries of a preview that were moved to a later index
Resolved(previewData) == SelectSeq(previewData, LAMBDA item : item.collisionResolved)

\* C31: when several preview generations are requested while earlier ones
\* are still running, then once all of them have completed the stored
\* previewData and the collisionResolutions of the renamer are those of the
\* most recently requested generation: they match the current sortedFiles.
C31_Claimed ==
    [][/\ previews # <<>>
       /\ previews' = <<>>
       /\ previews[1].overlapped
       => /\ PlannedFiles(ui'.state.previewData) = ui'.state.sortedFiles
          /\ Len(fileRenamer'.collisionResolutions)
                 = Len(Resolved(ui'.state.previewData))]_vars

(***************************************************************************)
(* The work of a generatePreview call.                                     *)
(***************************************************************************)
\* the existence probes a call made for its planned file i: one for each
\* index from the candidate to the index assigned
ProbesForEntry(i) ==
    IF Arguments.options.resolveCollisions
    THEN Entries[i].actualIndex - CandidateIndex(i) + 1
    ELSE 0

\* the probes made for the planned files before file i
RECURSIVE ProbesBefore(_)
ProbesBefore(i) ==
    IF i = 1 THEN 0 ELSE ProbesBefore(i - 1) + ProbesForEntry(i - 1)

\* the probes made for the file at which the planning stopped
ProbesAtStop == Len(Probes) - ProbesBefore(Len(Entries) + 1)

\* C32: for each input file generatePreview makes at most 1 + 1000 existence
\* probes, one for the candidate and at most 1000 while probing forward, so
\* that a call for n files makes at most 1001 * n probes.
C32_ProbesBounded ==
    Returned =>
        /\ Len(Probes) <= (1 + MaxAttempts) * Len(Files)
        /\ \A i \in 1..Len(Entries) :
               /\ ProbesForEntry(i) <= 1 + MaxAttempts
               /\ \A p \in 1..ProbesForEntry(i) :
                      Probes[ProbesBefore(i) + p].fileName
                          = NameAt(i, CandidateIndex(i) + p - 1)
        /\ ProbesAtStop >= 0
        /\ ProbesAtStop <= 1 + MaxAttempts
        /\ Len(Entries) = Len(Files) => ProbesAtStop = 0

\* a call for two files: the first was planned, and for the second every
\* probe was made without finding a name
C32_Witness ==
    /\ Returned
    /\ Len(Files) = 2 /\ Len(Entries) = 1
    /\ ProbesForEntry(1) >= 1
    /\ ProbesAtStop = 1 + MaxAttempts

(***************************************************************************)
(* The renames of an executeRenaming call.                                 *)
(***************************************************************************)
\* the rename calls made for entry i
RenamesOf(i) == {k \in EventsOf("rename") : Events[k].index = i}

\* C33: executeRenaming invokes the rename primitive exactly once for every
\* entry, with the file handle and the newName of that entry, also when a
\* progress callback is supplied; no entry is reported in failed without its
\* rename having been attempted.
C33_Claimed ==
    Executing =>
        /\ \A i \in 1..(Run.i - 1) :
               /\ Cardinality(RenamesOf(i)) = 1
               /\ \A k \in RenamesOf(i) :
                      /\ Events[k].handle = Given[i].file.handle
                      /\ Events[k].newName = Given[i].newName
        /\ \A i \in 1..Len(Given) :
               Listed(Run.failed, i) # {} => RenamesOf(i) # {}

(***************************************************************************)
(* The date keys of sortFiles.                                             *)
(***************************************************************************)
\* C34: with the date keys sortFiles compares creationTime, and uses
\* lastModified only when creationTime is absent: a record whose
\* creationTime is present with value 0 is ordered by 0.  Every record here
\* has a creationTime, so the output is ordered by creationTime.
C34_Claimed ==
    SortEnded /\ SortGiven # <<>> /\ SortKey \in {"date-asc", "date-desc"} =>
        \A k \in 1..(Len(SortOutput) - 1) :
            IF SortKey = "date-asc"
            THEN SortOutput[k].creationTime <= SortOutput[k + 1].creationTime
            ELSE SortOutput[k].creationTime >= SortOutput[k + 1].creationTime

(***************************************************************************)
(* getCollisionResolutions after a generatePreview call.                   *)
(***************************************************************************)
\* C35: getCollisionResolutions always returns the collision resolutions of
\* the most recent generatePreview call: those of its result when it
\* succeeded, and after a call that failed not those of an earlier
\* successful call (none, when the call was refused for its pattern before
\* any file was planned).
C35_Claimed ==
    [][pending # <<>> /\ pending' = <<>>
       => IF last'[1].result.success
          THEN getCollisionResolutions(fileRenamer')
                   = last'[1].result.collisionResolutions
          ELSE ~validatePattern(pending[1].pattern).isValid
                   => getCollisionResolutions(fileRenamer') = <<>>]_vars

(***************************************************************************)
(* The application after an execution.                                     *)
(***************************************************************************)
\* an execution has completed and its result was shown; no folder is
\* selected after that
ExecutionCompleted == ui.state.operationResult # <<>>

\* C36: after an execution has completed the application state holds no
\* files, no sorted files and no preview data, and this stays so until a new
\* folder is selected, so that a further Execute action has nothing to
\* rename.
C36_Claimed ==
    ExecutionCompleted =>
        /\ ui.state.files = <<>>
        /\ ui.state.sortedFiles = <<>>
        /\ ui.state.previewData = <<>>

(***************************************************************************)
(* Files that already bear a name of the pattern.                          *)
(***************************************************************************)
\* no entry keeps the name its file has
NoNameKept ==
    \A i \in 1..Len(Entries) : Entries[i].newName # Entries[i].originalName

C38_Claimed ==
    Validated =>
        (validatePatternSilentObject(ValidatedPattern).isValid
             <=> Validation.isValid)

(***************************************************************************)
(* generateNewName applied to the patterns validatePattern has checked.    *)
(***************************************************************************)
\* the largest index a name is generated for
MaxNameIndex == 10

\* the patterns named with: 'f{number}', '{number}', 'COM{number}',
\* 'lpt{number}', 'CON{number}' and 'f{number}.'
NamePatterns ==
    {<<"f">> \o Placeholder,
     Placeholder,
     <<"C", "O", "M">> \o Placeholder,
     <<"l", "p", "t">> \o Placeholder,
     <<"C", "O", "N">> \o Placeholder,
     <<"f">> \o Placeholder \o <<".">>}

\* the options of the padding select
PaddingOptions == {0, 2, 3, 4, 5}

\* the extensions of the files named: none, and '.a'
NameExtensions == {<<>>, <<".", "a">>}

InitName ==
    /\ folder = {}
    /\ directoryHandle = FALSE
    /\ access = "granted"
    /\ fileRenamer = NewFileRenamer
    /\ pending = <<>>
    /\ last = <<>>
    /\ handles = InitialHandles
    /\ execution = <<>>
    /\ ui = NewUIManager
    /\ previews = <<>>
    /\ applied \in {<<[function |-> "generateNewName", pattern |-> pattern,
                       index |-> index, padding |-> padding,
                       extension |-> extension, result |-> <<>>]>> :
                        pattern \in NamePatterns, index \in 1..MaxNameIndex,
                        padding \in PaddingOptions, extension \in NameExtensions}

\* the pattern is validated and the name is generated
ApplyName ==
    /\ applied # <<>>
    /\ applied[1].result = <<>>
    /\ applied' = <<[applied[1] EXCEPT
                        !.result =
                            <<[validation |-> validatePattern(applied[1].pattern),
                               newName |-> generateNewName(applied[1].pattern,
                                                           applied[1].index,
                                                           applied[1].padding,
                                                           applied[1].extension)]>>]>>
    /\ UNCHANGED <<folder, directoryHandle, access, fileRenamer, pending, last,
                   executionVars, appVars>>

NextName == ApplyName

SpecName == InitName /\ [][NextName]_vars

\* the name has been generated; the name without the extension of the file
Named == applied # <<>> /\ applied[1].result # <<>>
BaseName ==
    SubSeq(applied[1].result[1].newName, 1,
           Len(applied[1].result[1].newName) - Len(applied[1].extension))

\* C39: for every pattern accepted by validatePattern, every padding in
\* {0,2,3,4,5} and every index, the generated name without its extension is
\* never a reserved device name, in any case of its letters.
C39_Claimed ==
    Named /\ applied[1].result[1].validation.isValid =>
        ToUpperCase(BaseName) \notin ReservedNames

====
